---- MODULE Spec2Model ----
(***************************************************************************)
(* gibgoGame: the software GPU-emulation layer.                            *)
(*                                                                         *)
(* The module models the device memory allocator (bump allocator with a    *)
(* slot table), the global command list, the command ring with its         *)
(* register block, the fence, and the calls of the driver API that act on  *)
(* them.  Machine integers are modelled modulo a power of two; the widths  *)
(* and the table sizes are scaled down, the arithmetic is the source's.    *)
(***************************************************************************)
EXTENDS Integers, Naturals, Sequences, FiniteSets, TLC

(***************************************************************************)
(* Bounds.  Each stands for a quantity of the source that is too large to  *)
(* enumerate; the value kept in the source is named in the comment.        *)
(***************************************************************************)
\* width of the u64 type of the allocator arithmetic (64 in the source)
U64Bits == 11
\* number of slots in memory_pool.allocations (256 in the source)
MaxAllocations == 3
\* memory_pool.pool_size, the size of the backing pool in bytes
PoolBytes == 1024

\* width of the u32 type of registers, pixels and fence values (32 in the
\* source)
U32Bits == 10
\* max_commands, the capacity of a command list (256 in the source)
MaxListCommands == 3
\* cmd_ring.capacity, the number of slots of the command ring (1024 in the
\* source; larger than the capacity of a command list, as in the source)
RingCapacity == 4
\* initial value of the timeout counter of the two polling loops (1000000 in
\* the source)
PollLimit == 2
\* largest fence counter the model lets present_frame reach
MaxFence == 3
\* number of command lists the model lets the program begin
MaxLists == 2
\* width and height of the framebuffer gibgo_create_context allocates (800
\* and 600 in the source)
FramebufferWidth == 6
FramebufferHeight == 6
\* number of DRAW_INDEXED commands the model executes in one frame
MaxDraws == 2

U64 == 2 ^ U64Bits

U32 == 2 ^ U32Bits

(***************************************************************************)
(* Program constants.                                                      *)
(***************************************************************************)
GPU_MEMORY_ALIGNMENT == 256

GIBGO_RESULT_SUCCESS == "SUCCESS"
GIBGO_RESULT_ERROR_OUT_OF_MEMORY == "ERROR_OUT_OF_MEMORY"
GIBGO_RESULT_ERROR_INVALID_PARAMETER == "ERROR_INVALID_PARAMETER"
GIBGO_RESULT_ERROR_GPU_TIMEOUT == "ERROR_GPU_TIMEOUT"
GIBGO_RESULT_ERROR_COMMAND_FAILED == "ERROR_COMMAND_FAILED"

\* device->vram.physical_address (bar0_base + 0x01000000), a multiple of
\* the alignment
physical_address == 512
\* device->memory_pool.pool_memory, the CPU address of the backing pool
pool_memory == 4096
\* device->memory_pool.pool_size
pool_size == PoolBytes

VARIABLES
    \* ---- device memory (GibgoGPUDevice) ----
    vram_allocation_offset,   \* device->vram_allocation_offset (u64)
    memory_pool,              \* device->memory_pool: pool_used,
                              \* allocation_count, allocations[]
    pool_bytes,               \* the bytes behind memory_pool.pool_memory, one
                              \* per aligned block (the block's first byte)
    \* ---- command list (file-scope statics of gpu_commands.c) ----
    current_commands,         \* the list: null or a sequence of commands
    current_command_count,    \* number of commands recorded
    max_commands,             \* capacity of the list
    \* ---- command ring, registers, counters (GibgoGPUDevice) ----
    cmd_ring,                 \* device->cmd_ring: command_buffer,
                              \* head_offset, tail_offset
    registers,                \* the words of device->regs.registers the
                              \* driver uses: START, HEAD, TAIL, FENCE
    device,                   \* fence_counter, commands_submitted,
                              \* frames_rendered
    context,                  \* GibgoContext: frame_fence,
                              \* current_frame_index, framebuffer_*
    \* ---- position of the running call ----
    proc,                     \* pc, loop index i, timeout, awaited value
    \* ---- history ----
    ring_log,                 \* ring bookkeeping (see RingLogInit)
    lists_begun,              \* number of begin_commands calls that succeeded
    alloc_log,                \* successful allocate calls, in call order
    ret,                      \* the last call: name, arguments, result
    \* ---- software rasterizer ----
    framebuffer,              \* the pixels the rasterizer writes, row-major
    depth_buffer,             \* the depth buffer of the draw call in
                              \* progress (gibgoGraphics), else empty
    raster                    \* the draw call in progress: its parameters,
                              \* loop index and counters (see RasterIdle)

allocVars == <<vram_allocation_offset, memory_pool, alloc_log, pool_bytes>>

listVars == <<current_commands, current_command_count, max_commands>>

cmdVars == <<current_commands, current_command_count, max_commands, cmd_ring,
             registers, device, context, proc, ring_log, lists_begun>>

rasterVars == <<framebuffer, depth_buffer, raster>>

Slots == 0 .. (MaxAllocations - 1)

EmptySlot == [gpu_address |-> 0, cpu_pointer |-> 0, size |-> 0, in_use |-> FALSE]

NoCall == [op |-> "none", a0 |-> 0, a1 |-> 0, result |-> GIBGO_RESULT_SUCCESS, out |-> 0]

Call(op, a0, a1, result, out) ==
    [op |-> op, a0 |-> a0, a1 |-> a1, result |-> result, out |-> out]

(***************************************************************************)
(* align_gpu_memory: (size + alignment - 1) & ~(alignment - 1) in u64.     *)
(* For a power-of-two alignment the mask clears the low bits, that is, it  *)
(* subtracts the remainder; the addition wraps at the width of u64.        *)
(***************************************************************************)
align_gpu_memory_nowrap(size, alignment) ==
    LET sum == size + alignment - 1
    IN  sum - (sum % alignment)

align_gpu_memory(size, alignment) ==
    LET sum == (size + alignment - 1) % U64
    IN  sum - (sum % alignment)

\* the loop "for i in 0..255: if !allocations[i].in_use { slot_index = i; break }"
\* with slot_index initialised to 0
FindUnusedSlot(allocations) ==
    IF \E i \in Slots : ~allocations[i].in_use
    THEN CHOOSE i \in Slots :
            /\ ~allocations[i].in_use
            /\ \A j \in Slots : j < i => allocations[j].in_use
    ELSE 0

(***************************************************************************)
(* gibgo_allocate_gpu_memory as a function of the device memory state.     *)
(* Returns the result code, the value stored through out_address (only     *)
(* meaningful on success) and the new device memory state.                 *)
(***************************************************************************)
AllocateOutcome(offset, pool, size) ==
    LET aligned_size == align_gpu_memory(size, GPU_MEMORY_ALIGNMENT)
        slot_index   == FindUnusedSlot(pool.allocations)
        gpu_address  == (physical_address + offset) % U64
        cpu_pointer  == pool_memory + pool.pool_used
    IN  IF size = 0
        THEN [result |-> GIBGO_RESULT_ERROR_INVALID_PARAMETER, address |-> 0,
              aligned |-> 0, offset |-> offset, pool |-> pool]
        ELSE IF (pool.pool_used + aligned_size) % U64 > pool_size
        THEN [result |-> GIBGO_RESULT_ERROR_OUT_OF_MEMORY, address |-> 0,
              aligned |-> 0, offset |-> offset, pool |-> pool]
        ELSE IF pool.allocation_count >= MaxAllocations
        THEN [result |-> GIBGO_RESULT_ERROR_OUT_OF_MEMORY, address |-> 0,
              aligned |-> 0, offset |-> offset, pool |-> pool]
        ELSE [result  |-> GIBGO_RESULT_SUCCESS,
              address |-> gpu_address,
              aligned |-> aligned_size,
              offset  |-> (offset + aligned_size) % U64,
              pool    |-> [pool_used |-> (pool.pool_used + aligned_size) % U64,
                           allocation_count |-> pool.allocation_count + 1,
                           allocations |->
                              [pool.allocations EXCEPT ![slot_index] =
                                  [gpu_address |-> gpu_address,
                                   cpu_pointer |-> cpu_pointer,
                                   size        |-> aligned_size,
                                   in_use      |-> TRUE]]]]

(***************************************************************************)
(* gibgo_map_gpu_memory as a function of the allocation table: the first   *)
(* in-use entry with the address decides.                                  *)
(***************************************************************************)
MatchingSlots(allocations, gpu_address) ==
    {i \in Slots : allocations[i].in_use /\ allocations[i].gpu_address = gpu_address}

FirstMatchingSlot(allocations, gpu_address) ==
    CHOOSE i \in MatchingSlots(allocations, gpu_address) :
        \A j \in MatchingSlots(allocations, gpu_address) : i <= j

MapOutcome_NoSizeCheck(pool, gpu_address, size) ==
    IF size = 0
    THEN [result |-> GIBGO_RESULT_ERROR_INVALID_PARAMETER, cpu_address |-> 0]
    ELSE IF MatchingSlots(pool.allocations, gpu_address) = {}
    THEN [result |-> GIBGO_RESULT_ERROR_INVALID_PARAMETER, cpu_address |-> 0]
    ELSE [result |-> GIBGO_RESULT_SUCCESS,
          cpu_address |->
             pool.allocations[FirstMatchingSlot(pool.allocations, gpu_address)].cpu_pointer]

MapOutcome(pool, gpu_address, size) ==
    IF size = 0
    THEN [result |-> GIBGO_RESULT_ERROR_INVALID_PARAMETER, cpu_address |-> 0]
    ELSE IF MatchingSlots(pool.allocations, gpu_address) = {}
    THEN [result |-> GIBGO_RESULT_ERROR_INVALID_PARAMETER, cpu_address |-> 0]
    ELSE LET i == FirstMatchingSlot(pool.allocations, gpu_address)
         IN  IF size > pool.allocations[i].size
             THEN [result |-> GIBGO_RESULT_ERROR_INVALID_PARAMETER, cpu_address |-> 0]
             ELSE [result |-> GIBGO_RESULT_SUCCESS,
                   cpu_address |-> pool.allocations[i].cpu_pointer]

\* gibgo_unmap_gpu_memory: validates the pointer, changes nothing
UnmapOutcome(pool, cpu_address) ==
    IF cpu_address = 0
    THEN GIBGO_RESULT_ERROR_INVALID_PARAMETER
    ELSE IF \E i \in Slots : /\ pool.allocations[i].in_use
                             /\ pool.allocations[i].cpu_pointer = cpu_address
    THEN GIBGO_RESULT_SUCCESS
    ELSE GIBGO_RESULT_ERROR_INVALID_PARAMETER

(***************************************************************************)
(* Inputs of the allocator calls.                                          *)
(***************************************************************************)
AllocSizes == {0, 1, GPU_MEMORY_ALIGNMENT, GPU_MEMORY_ALIGNMENT + 1,
               U64 - GPU_MEMORY_ALIGNMENT, U64 - 1}

MapAddresses == {physical_address + k * GPU_MEMORY_ALIGNMENT : k \in 0 .. 2} \cup {0, 7}

MapSizes == {0, 1, GPU_MEMORY_ALIGNMENT, GPU_MEMORY_ALIGNMENT + 1}

CpuPointers == {pool_memory + k * GPU_MEMORY_ALIGNMENT : k \in 0 .. 1} \cup {0, 9}

(***************************************************************************)
(* The allocator calls as actions.                                         *)
(***************************************************************************)
gibgo_allocate_gpu_memory(size) ==
    LET o == AllocateOutcome(vram_allocation_offset, memory_pool, size)
    IN  /\ vram_allocation_offset' = o.offset
        /\ memory_pool' = o.pool
        /\ alloc_log' = IF o.result = GIBGO_RESULT_SUCCESS
                        THEN Append(alloc_log,
                                    [address |-> o.address, size |-> o.aligned,
                                     request |-> size, written |-> 0])
                        ELSE alloc_log
        /\ UNCHANGED pool_bytes
        /\ ret' = Call("allocate", size, 0, o.result, o.address)
        /\ UNCHANGED <<cmdVars, rasterVars>>

gibgo_free_gpu_memory(address, size) ==
    /\ ret' = Call("free", address, size, GIBGO_RESULT_SUCCESS, 0)
    /\ UNCHANGED <<allocVars, rasterVars>>
    /\ UNCHANGED <<cmdVars, rasterVars>>

gibgo_map_gpu_memory(gpu_address, size) ==
    LET o == MapOutcome(memory_pool, gpu_address, size)
    IN  /\ ret' = Call("map", gpu_address, size, o.result, o.cpu_address)
        /\ UNCHANGED <<allocVars, rasterVars>>
        /\ UNCHANGED <<cmdVars, rasterVars>>

gibgo_unmap_gpu_memory(cpu_address, size) ==
    /\ ret' = Call("unmap", cpu_address, size, UnmapOutcome(memory_pool, cpu_address), 0)
    /\ UNCHANGED <<allocVars, rasterVars>>
    /\ UNCHANGED <<cmdVars, rasterVars>>

(***************************************************************************)
(* Access to an allocation by the caller that holds its address and size,  *)
(* as gibgo_upload_vertices and gibgo_load_shaders do it: map, copy        *)
(* through the returned pointer, unmap.  allocation is the position of the *)
(* allocate call in alloc_log; the first byte of the mapping stands for    *)
(* the mapped range.  CPU addresses past the pool are the heap behind it.  *)
(***************************************************************************)
CpuBlocks == {pool_memory + k * GPU_MEMORY_ALIGNMENT :
                k \in 0 .. (U64 \div GPU_MEMORY_ALIGNMENT - 1)}

\* map(A.address, A.size); memcpy(pointer, data); unmap
write_mapped(allocation, value) ==
    LET a == alloc_log[allocation]
        o == MapOutcome(memory_pool, a.address, a.size)
    IN  /\ IF o.result = GIBGO_RESULT_SUCCESS
           THEN /\ pool_bytes' = [pool_bytes EXCEPT ![o.cpu_address] = value]
                /\ alloc_log' = [alloc_log EXCEPT ![allocation].written = value]
           ELSE UNCHANGED <<pool_bytes, alloc_log>>
        /\ ret' = Call("write", allocation, value, o.result, o.cpu_address)
        /\ UNCHANGED <<vram_allocation_offset, memory_pool>>
        /\ UNCHANGED <<cmdVars, rasterVars>>

\* map(A.address, A.size); read through the pointer; unmap
read_mapped(allocation) ==
    LET a == alloc_log[allocation]
        o == MapOutcome(memory_pool, a.address, a.size)
    IN  /\ ret' = Call("read", allocation, 0, o.result,
                       IF o.result = GIBGO_RESULT_SUCCESS
                       THEN pool_bytes[o.cpu_address] ELSE 0)
        /\ UNCHANGED <<allocVars, rasterVars>>
        /\ UNCHANGED <<cmdVars, rasterVars>>

(***************************************************************************)
(* Commands, the command list and add_command.                             *)
(***************************************************************************)
GPUCommand(type, p0, p1, p2) ==
    [command_type |-> type, param0 |-> p0, param1 |-> p1, param2 |-> p2]

\* a slot of the malloc'ed ring that has not been written yet; its content
\* is never read before it is written
ZeroCommand == GPUCommand("NONE", 0, 0, 0)

\* the three file-scope statics as one value
CommandList(cmds, count, max) == [cmds |-> cmds, count |-> count, max |-> max]

\* current_commands == NULL
NullList == [null |-> TRUE, cmds |-> <<>>]

CurrentList == CommandList(current_commands, current_command_count, max_commands)

\* add_command without the capacity check
add_command_unchecked(list, cmd) ==
    IF list.cmds.null
    THEN [result |-> GIBGO_RESULT_ERROR_INVALID_PARAMETER, list |-> list]
    ELSE [result |-> GIBGO_RESULT_SUCCESS,
          list |-> CommandList([null |-> FALSE, cmds |-> Append(list.cmds.cmds, cmd)],
                               list.count + 1, list.max)]

\* add_command: INVALID_PARAMETER without a list, COMMAND_FAILED when the
\* list is at capacity, otherwise the command is stored at index count
add_command(list, cmd) ==
    IF list.cmds.null
    THEN [result |-> GIBGO_RESULT_ERROR_INVALID_PARAMETER, list |-> list]
    ELSE IF list.count >= list.max
    THEN [result |-> GIBGO_RESULT_ERROR_COMMAND_FAILED, list |-> list]
    ELSE [result |-> GIBGO_RESULT_SUCCESS,
          list |-> CommandList([null |-> FALSE, cmds |-> Append(list.cmds.cmds, cmd)],
                               list.count + 1, list.max)]

\* (u32)(address & 0xFFFFFFFF) and (u32)(address >> 32)
Low32(address) == address % U32

High32(address) == address \div U32

SetList(list) ==
    /\ current_commands' = list.cmds
    /\ current_command_count' = list.count
    /\ max_commands' = list.max

(***************************************************************************)
(* Registers.  The driver addresses four words of the register block: the  *)
(* command processor's START, HEAD and TAIL words (cmd_regs[0x00], [0x04], *)
(* [0x08]) and the fence word (cmd_regs[0x100]).  In the DRM device the    *)
(* register block is the framebuffer (regs.registers = framebuffer), so    *)
(* these words are pixels of the first rows of the image.                  *)
(***************************************************************************)
RegisterNames == {"START", "HEAD", "TAIL", "FENCE"}

\* 0xFF000000, the alpha byte every pixel written by the rasterizer carries
AlphaOpaque == U32 - (U32 \div 256)

\* 0xFF222222, the colour gibgo_create_device clears the framebuffer to
DeviceClearColor == AlphaOpaque + 2

\* 0xFF111111, the colour GPU_CMD_CLEAR_FRAMEBUFFER clears it to
CommandClearColor == AlphaOpaque + 1

RingSlots == 0 .. (RingCapacity - 1)

\* next_tail without the wrap at the capacity
NextTail_NoWrap(ring) == ring.tail_offset + 1

\* next_tail = (tail_offset + 1) % capacity
NextTail(ring) == (ring.tail_offset + 1) % RingCapacity

\* context->framebuffer_format (RGBA8)
framebuffer_format == 34952

\* ring bookkeeping: the number of records written so far, the slots that
\* hold a record no consumer has read, and the number of records that had
\* been written when the full-ring path was first entered (-1: never), and
\* the records gpu_execute_command_ring read during its last run
RingLogInit == [written |-> 0, pending |-> {}, first_full_at |-> -1,
                executed |-> <<>>]

Idle == [pc |-> "idle", i |-> 0, timeout |-> 0, value |-> 0]

(***************************************************************************)
(* The recording calls.                                                    *)
(***************************************************************************)
\* gibgo_begin_commands: a fresh list of max_commands entries
gibgo_begin_commands ==
    /\ proc.pc = "idle"
    /\ lists_begun < MaxLists
    /\ SetList(CommandList([null |-> FALSE, cmds |-> <<>>], 0, MaxListCommands))
    /\ lists_begun' = lists_begun + 1
    /\ ret' = Call("begin", 0, 0, GIBGO_RESULT_SUCCESS, 0)
    /\ UNCHANGED <<cmd_ring, registers, device, context, proc, ring_log>>
    /\ UNCHANGED <<allocVars, rasterVars>>

\* gibgo_end_commands
gibgo_end_commands ==
    /\ proc.pc = "idle"
    /\ ret' = Call("end", 0, 0,
                   IF current_commands.null
                   THEN GIBGO_RESULT_ERROR_INVALID_PARAMETER
                   ELSE GIBGO_RESULT_SUCCESS, 0)
    /\ UNCHANGED <<cmdVars, rasterVars>>
    /\ UNCHANGED <<allocVars, rasterVars>>

\* gibgo_set_viewport: stores the size in the context, then appends
gibgo_set_viewport(width, height) ==
    LET r == add_command(CurrentList, GPUCommand("SET_VIEWPORT", width, height, 0))
    IN  /\ proc.pc = "idle"
        /\ context' = [context EXCEPT !.framebuffer_width = width,
                                      !.framebuffer_height = height]
        /\ SetList(r.list)
        /\ ret' = Call("set_viewport", width, height, r.result, 0)
        /\ UNCHANGED <<cmd_ring, registers, device, proc, ring_log, lists_begun>>
        /\ UNCHANGED <<allocVars, rasterVars>>

\* gibgo_draw_primitives_internal: three appends, results not looked at
gibgo_draw_primitives(vertex_count, first_vertex) ==
    LET r1 == add_command(CurrentList,
                          GPUCommand("SET_VERTEX_BUFFER",
                                     Low32(context.vertex_buffer_address),
                                     High32(context.vertex_buffer_address),
                                     context.vertex_buffer_stride))
        r2 == add_command(r1.list, GPUCommand("CLEAR_FRAMEBUFFER", 0, 0, 0))
        r3 == add_command(r2.list,
                          GPUCommand("DRAW_PRIMITIVES", vertex_count, first_vertex, 0))
    IN  /\ proc.pc = "idle"
        /\ SetList(r3.list)
        /\ ret' = Call("draw", vertex_count, first_vertex, GIBGO_RESULT_SUCCESS, 0)
        /\ UNCHANGED <<cmd_ring, registers, device, context, proc, ring_log,
                       lists_begun>>
        /\ UNCHANGED <<allocVars, rasterVars>>

\* gibgo_present_frame: PRESENT_FRAME, frame_fence = ++fence_counter, FENCE,
\* the two frame counters; results of the appends not looked at
gibgo_present_frame ==
    LET r1 == add_command(CurrentList,
                          GPUCommand("PRESENT_FRAME",
                                     Low32(context.framebuffer_address),
                                     High32(context.framebuffer_address),
                                     context.framebuffer_format))
        fence == (device.fence_counter + 1) % U32
        r2 == add_command(r1.list, GPUCommand("FENCE", fence, 0, 0))
    IN  /\ proc.pc = "idle"
        /\ device.fence_counter < MaxFence
        /\ device' = [device EXCEPT !.fence_counter = fence,
                                    !.frames_rendered = @ + 1]
        /\ context' = [context EXCEPT !.frame_fence = fence,
                                      !.current_frame_index = (@ + 1) % U32]
        /\ SetList(r2.list)
        /\ ret' = Call("present", 0, 0, GIBGO_RESULT_SUCCESS, 0)
        /\ UNCHANGED <<cmd_ring, registers, proc, ring_log, lists_begun>>
        /\ UNCHANGED <<allocVars, rasterVars>>

(***************************************************************************)
(* Submission.  gibgo_submit_commands calls submit_commands_to_hardware,   *)
(* whose loop over the list is modelled one iteration (or one poll of the  *)
(* full-ring wait) per step; the position is kept in proc.                 *)
(***************************************************************************)
HasCommand(cmds, type) == \E k \in 1 .. Len(cmds) : cmds[k].command_type = type

\* execute_3d_cube_rendering on the words of the framebuffer that are the
\* driver's registers: CLEAR_FRAMEBUFFER stores the clear colour in every
\* pixel.  The rasterizer runs only for a non-zero vertex buffer address,
\* which requires an upload_vertices call; the model has none.
execute_3d_cube_rendering(regs, cmds) ==
    IF HasCommand(cmds, "CLEAR_FRAMEBUFFER")
    THEN [r \in RegisterNames |-> CommandClearColor]
    ELSE regs

\* the tail of gibgo_submit_commands: the list is freed whatever the result
ReleaseList == SetList(CommandList(NullList, 0, 0))

SubmitEnter(regs) ==
    /\ proc.pc = "idle"
    /\ IF current_commands.null
       THEN /\ ret' = Call("submit", 0, 0, GIBGO_RESULT_ERROR_INVALID_PARAMETER, 0)
            /\ UNCHANGED <<cmdVars, rasterVars>>
       ELSE /\ proc' = [pc |-> "submit", i |-> 0, timeout |-> 0, value |-> 0]
            /\ registers' = regs
            /\ ret' = Call("submit",
                           IF HasCommand(current_commands.cmds, "PRESENT_FRAME")
                           THEN 1 ELSE 0,
                           current_command_count, "running", 0)
            /\ UNCHANGED <<current_commands, current_command_count, max_commands,
                           cmd_ring, device, context, ring_log, lists_begun>>
    /\ UNCHANGED <<allocVars, rasterVars>>

\* gibgo_submit_commands up to the ring loop (triangle and gibgoGraphics)
gibgo_submit_commands == SubmitEnter(registers)

\* gibgo_submit_commands up to the ring loop (directDrm rotating cube): the
\* list is executed by the software rasterizer first
gibgo_submit_commands_drm ==
    SubmitEnter(IF current_commands.null
                THEN registers
                ELSE execute_3d_cube_rendering(registers, current_commands.cmds))

\* the record of the list is stored at tail_offset, tail_offset = next_tail
WriteRecord ==
    /\ cmd_ring' = [cmd_ring EXCEPT
                      !.command_buffer[cmd_ring.tail_offset] =
                          current_commands.cmds[proc.i + 1],
                      !.tail_offset = NextTail(cmd_ring)]
    /\ ring_log' = [ring_log EXCEPT
                      !.written = @ + 1,
                      !.pending = @ \cup {cmd_ring.tail_offset}]
    /\ proc' = [proc EXCEPT !.pc = "submit", !.i = @ + 1, !.timeout = 0]
    /\ UNCHANGED <<current_commands, current_command_count, max_commands,
                   registers, device, context, lists_begun, ret>>

\* one step of the ring loop: the full test of an iteration, one poll of the
\* head register, or the exit of the polling loop
ring_write_step ==
    /\ \/ proc.pc = "submit" /\ proc.i < current_command_count
       \/ proc.pc = "poll"
    /\ IF proc.pc = "submit"
       THEN IF NextTail(cmd_ring) = cmd_ring.head_offset
            THEN /\ proc' = [proc EXCEPT !.pc = "poll", !.timeout = PollLimit]
                 /\ ring_log' = [ring_log EXCEPT
                                   !.first_full_at = IF @ = -1
                                                     THEN ring_log.written ELSE @]
                 /\ UNCHANGED <<current_commands, current_command_count,
                                max_commands, cmd_ring, registers, device,
                                context, lists_begun, ret>>
            ELSE WriteRecord
       ELSE IF NextTail(cmd_ring) = cmd_ring.head_offset /\ proc.timeout > 0
            THEN /\ cmd_ring' = [cmd_ring EXCEPT !.head_offset = registers["HEAD"]]
                 /\ proc' = [proc EXCEPT !.timeout = @ - 1]
                 /\ UNCHANGED <<current_commands, current_command_count,
                                max_commands, registers, device, context,
                                ring_log, lists_begun, ret>>
            ELSE IF proc.timeout = 0
            THEN /\ ReleaseList
                 /\ proc' = Idle
                 /\ ret' = [ret EXCEPT !.result = GIBGO_RESULT_ERROR_GPU_TIMEOUT]
                 /\ UNCHANGED <<cmd_ring, registers, device, context, ring_log,
                                lists_begun>>
            ELSE WriteRecord
    /\ UNCHANGED <<allocVars, rasterVars>>

\* The ring's buffer is malloc'ed with buffer_size = capacity * sizeof(u32)
\* bytes, that is capacity words, while slot k occupies the words 4k .. 4k+3:
\* only the slots with 4k + 3 < capacity lie in the buffer.
InBuffer(slot) == slot * 4 + 3 < RingCapacity

\* words found past the end of the buffer that are not the record written
ForeignWords == GPUCommand("UNKNOWN", 0, 0, 0)

\* the four words read at a slot: the record stored there, or, for a slot
\* past the end of the buffer, either that record (intact) or other words
ReadSlot(ring, slot, intact) ==
    IF InBuffer(slot) \/ intact THEN ring.command_buffer[slot] ELSE ForeignWords

\* gpu_execute_command_ring: every record from head to tail is read and
\* executed, head_offset follows
RECURSIVE gpu_execute_command_ring(_, _, _, _, _)
gpu_execute_command_ring(ring, regs, dev, log, intact) ==
    IF ring.head_offset = ring.tail_offset
    THEN [ring |-> ring, regs |-> regs, dev |-> dev, log |-> log]
    ELSE LET cmd == ReadSlot(ring, ring.head_offset, intact)
         IN  gpu_execute_command_ring(
                 [ring EXCEPT !.head_offset = (@ + 1) % RingCapacity],
                 IF cmd.command_type = "FENCE"
                 THEN [regs EXCEPT !["FENCE"] = cmd.param0]
                 ELSE regs,
                 IF cmd.command_type = "PRESENT_FRAME"
                 THEN [dev EXCEPT !.frames_rendered = @ + 1]
                 ELSE dev,
                 [log EXCEPT !.pending = @ \ {ring.head_offset},
                             !.executed = Append(@, cmd)],
                 intact)

\* the registers after the loop: TAIL = tail_offset, START = 1
NotifyRegisters == [registers EXCEPT !["TAIL"] = cmd_ring.tail_offset, !["START"] = 1]

\* the end of submit_commands_to_hardware and of gibgo_submit_commands
\* (triangle and directDrm): the registers are written, nothing is executed
submit_return ==
    /\ proc.pc = "submit"
    /\ proc.i = current_command_count
    /\ registers' = NotifyRegisters
    /\ device' = [device EXCEPT !.commands_submitted = @ + current_command_count]
    /\ ReleaseList
    /\ proc' = Idle
    /\ ret' = [ret EXCEPT !.result = GIBGO_RESULT_SUCCESS]
    /\ UNCHANGED <<cmd_ring, context, ring_log, lists_begun>>
    /\ UNCHANGED <<allocVars, rasterVars>>

\* the end of submit_commands_to_hardware and of gibgo_submit_commands
\* (gibgoGraphics): the registers are written and the ring is executed
submit_return_gfx ==
    \E intact \in BOOLEAN :
    LET x == gpu_execute_command_ring(cmd_ring, NotifyRegisters, device,
                                      [ring_log EXCEPT !.executed = <<>>],
                                      intact)
    IN  /\ proc.pc = "submit"
        /\ proc.i = current_command_count
        /\ cmd_ring' = x.ring
        /\ registers' = x.regs
        /\ device' = [x.dev EXCEPT !.commands_submitted = @ + current_command_count]
        /\ ring_log' = x.log
        /\ ReleaseList
        /\ proc' = Idle
        /\ ret' = [ret EXCEPT !.result = GIBGO_RESULT_SUCCESS]
        /\ UNCHANGED <<context, lists_begun>>
        /\ UNCHANGED <<allocVars, rasterVars>>

(***************************************************************************)
(* gibgo_wait_for_completion: the polling loop, one evaluation of the loop *)
(* condition per step.                                                     *)
(***************************************************************************)
gibgo_wait_for_completion(fence_value) ==
    /\ proc.pc = "idle"
    /\ proc' = [pc |-> "wait", i |-> 0, timeout |-> PollLimit, value |-> fence_value]
    /\ ret' = Call("wait", fence_value, 0, "running", 0)
    /\ UNCHANGED <<current_commands, current_command_count, max_commands, cmd_ring,
                   registers, device, context, ring_log, lists_begun>>
    /\ UNCHANGED <<allocVars, rasterVars>>

\* while (*fence_register < fence_value && timeout > 0) timeout--;
\* then GPU_TIMEOUT if timeout == 0, SUCCESS otherwise
wait_step ==
    /\ proc.pc = "wait"
    /\ IF registers["FENCE"] < proc.value /\ proc.timeout > 0
       THEN /\ proc' = [proc EXCEPT !.timeout = @ - 1]
            /\ UNCHANGED ret
       ELSE /\ proc' = Idle
            /\ ret' = [ret EXCEPT !.result = IF proc.timeout = 0
                                             THEN GIBGO_RESULT_ERROR_GPU_TIMEOUT
                                             ELSE GIBGO_RESULT_SUCCESS,
                                  !.out = registers["FENCE"]]
    /\ UNCHANGED <<current_commands, current_command_count, max_commands, cmd_ring,
                   registers, device, context, ring_log, lists_begun>>
    /\ UNCHANGED <<allocVars, rasterVars>>

(***************************************************************************)
(* The command processor of a device whose registers are hardware: once    *)
(* started it executes the record at its head pointer, as one iteration of *)
(* gpu_execute_command_ring does, with the head pointer kept in the HEAD   *)
(* register and the end of the work taken from the TAIL register.  It runs *)
(* concurrently with the driver.                                           *)
(***************************************************************************)
command_processor_step ==
    \E intact \in BOOLEAN :
    LET head == registers["HEAD"]
        cmd == ReadSlot(cmd_ring, head, intact)
    IN  /\ registers["START"] = 1
        /\ head # registers["TAIL"]
        /\ registers' = [registers EXCEPT
                           !["HEAD"] = (head + 1) % RingCapacity,
                           !["FENCE"] = IF cmd.command_type = "FENCE"
                                        THEN cmd.param0 ELSE @]
        /\ ring_log' = [ring_log EXCEPT !.pending = @ \ {head}]
        /\ UNCHANGED <<current_commands, current_command_count, max_commands,
                       cmd_ring, device, context, proc, lists_begun, ret>>
        /\ UNCHANGED <<allocVars, rasterVars>>

(***************************************************************************)
(* The software rasterizer of the DRM rotating cube (gpu_commands.c).      *)
(*                                                                         *)
(* The f32 values of the pipeline are modelled as exact rationals n/d with *)
(* d > 0, kept in lowest terms; the rounding of the float operations is    *)
(* not modelled.  The vertices of the model carry integer clip-space       *)
(* coordinates, so every value the pipeline derives is such a rational.    *)
(***************************************************************************)
Pixels == 0 .. (FramebufferWidth * FramebufferHeight - 1)

RECURSIVE GCD(_, _)
GCD(a, b) == IF b = 0 THEN a ELSE GCD(b, a % b)

LCM(a, b) == (a * b) \div GCD(a, b)

\* an f32 value: the rational n/d in lowest terms, d > 0
Rat(n, d) ==
    LET g == GCD(IF n < 0 THEN -n ELSE n, d)
    IN  [n |-> n \div g, d |-> d \div g]

F32_ZERO == Rat(0, 1)

f32_abs(a) == IF a < 0 THEN -a ELSE a

f32_lt(a, b) == a.n * b.d < b.n * a.d

f32_gt(a, b) == a.n * b.d > b.n * a.d

f32_min(a, b) == IF f32_lt(a, b) THEN a ELSE b

f32_max(a, b) == IF f32_gt(a, b) THEN a ELSE b

f32_from_i32(value) == Rat(value, 1)

\* the cast (i32)f32_to_native(a): truncation towards zero
f32_to_i32(a) == IF a.n >= 0 THEN a.n \div a.d ELSE -((-a.n) \div a.d)

\* TransformedVertex result = {0}
ZeroVertex == [position |-> [x |-> F32_ZERO, y |-> F32_ZERO, z |-> F32_ZERO],
               is_valid |-> FALSE]

\* the frustum test of transform_vertex_to_screen on the clip-space vector
\* mat4f_mul_vec4f returned: it compares against |w|, not against w
inside_frustum(clip_space) ==
    LET w_abs == f32_abs(clip_space.w)
    IN  /\ w_abs > 0
        /\ f32_abs(clip_space.x) <= w_abs
        /\ f32_abs(clip_space.y) <= w_abs

\* transform_vertex_to_screen, from the clip-space vector on: perspective
\* divide by w, then the viewport transform
\*   screen_x = (x/w * 0.5 + 0.5) * width  = (x + w) * width  / (2w)
\*   screen_y = (1 - (y/w * 0.5 + 0.5)) * height = (w - y) * height / (2w)
transform_vertex_to_screen(clip_space, screen_width, screen_height) ==
    LET s == IF clip_space.w < 0 THEN -1 ELSE 1
        w_abs == f32_abs(clip_space.w)
    IN  IF inside_frustum(clip_space)
        THEN [position |->
                 [x |-> Rat(s * (clip_space.x + clip_space.w) * screen_width,
                            2 * w_abs),
                  y |-> Rat(s * (clip_space.w - clip_space.y) * screen_height,
                            2 * w_abs),
                  z |-> Rat(s * clip_space.z, w_abs)],
              is_valid |-> TRUE]
        ELSE ZeroVertex

\* the common denominator of the screen coordinates of three vertices
CommonDenominator(v1, v2, v3) ==
    LCM(LCM(LCM(v1.position.x.d, v1.position.y.d),
            LCM(v2.position.x.d, v2.position.y.d)),
        LCM(v3.position.x.d, v3.position.y.d))

\* point_in_triangle_barycentric for the pixel (px, py): all coordinates
\* are scaled by the common denominator D, which scales denom and the
\* numerators of u and v by D^4 and leaves the signs of u, v and w alone
point_in_triangle_barycentric(px, py, v1, v2, v3) ==
    LET D == CommonDenominator(v1, v2, v3)
        X(v) == v.position.x.n * (D \div v.position.x.d)
        Y(v) == v.position.y.n * (D \div v.position.y.d)
        v0x == X(v3) - X(v1)
        v0y == Y(v3) - Y(v1)
        v1x == X(v2) - X(v1)
        v1y == Y(v2) - Y(v1)
        v2x == px * D - X(v1)
        v2y == py * D - Y(v1)
        dot00 == v0x * v0x + v0y * v0y
        dot01 == v0x * v1x + v0y * v1y
        dot02 == v0x * v2x + v0y * v2y
        dot11 == v1x * v1x + v1y * v1y
        dot12 == v1x * v2x + v1y * v2y
        denom == dot00 * dot11 - dot01 * dot01
        u == dot11 * dot02 - dot01 * dot12
        v == dot00 * dot12 - dot01 * dot02
        w == denom - (u + v)
    IN  IF f32_abs(denom) <= (D * D * D * D) \div 1000000
        THEN FALSE
        ELSE IF denom > 0
             THEN u >= 0 /\ v >= 0 /\ w >= 0
             ELSE u <= 0 /\ v <= 0 /\ w <= 0

\* the bounding box rasterize_triangle computes, before the casts
BoundingBox(v1, v2, v3) ==
    [min_x |-> f32_min(f32_min(v1.position.x, v2.position.x), v3.position.x),
     max_x |-> f32_max(f32_max(v1.position.x, v2.position.x), v3.position.x),
     min_y |-> f32_min(f32_min(v1.position.y, v2.position.y), v3.position.y),
     max_y |-> f32_max(f32_max(v1.position.y, v2.position.y), v3.position.y)]

\* the pixel bounds without the clamp to the framebuffer
PixelBounds_Unclamped(box, width, height) ==
    [start_x |-> f32_to_i32(box.min_x), end_x |-> f32_to_i32(box.max_x),
     start_y |-> f32_to_i32(box.min_y), end_y |-> f32_to_i32(box.max_y)]

\* the integer pixel bounds of rasterize_triangle: the box clamped to
\* [0, width - 1] x [0, height - 1], then cast to i32
PixelBounds(box, width, height) ==
    [start_x |-> f32_to_i32(f32_max(box.min_x, F32_ZERO)),
     end_x |-> f32_to_i32(f32_min(box.max_x, f32_from_i32(width - 1))),
     start_y |-> f32_to_i32(f32_max(box.min_y, F32_ZERO)),
     end_y |-> f32_to_i32(f32_min(box.max_y, f32_from_i32(height - 1)))]

\* final_color of a pixel: the vertices of the model all carry the colour
\* (1, 1, 1), whose interpolation is (1, 1, 1) at every pixel: 0xFFFFFFFF
TriangleColor == U32 - 1

\* rasterize_triangle: the framebuffer after the two loops.  A pixel of the
\* bounds that passes the barycentric test is written at y * width + x,
\* when that index is below width * height
rasterize_triangle(fb, width, height, v1, v2, v3) ==
    LET b == PixelBounds(BoundingBox(v1, v2, v3), width, height)
        written == {(y * width + x) % U32 :
                       <<x, y>> \in {q \in (b.start_x .. b.end_x) \X (b.start_y .. b.end_y) :
                                        point_in_triangle_barycentric(q[1], q[2], v1, v2, v3)}}
    IN  [p \in DOMAIN fb |->
            IF p \in written /\ p < width * height THEN TriangleColor ELSE fb[p]]

\* is_triangle_back_facing: the sign of the z component of the cross
\* product of (v2 - v1) and (v3 - v1) in screen space
is_triangle_back_facing(v1, v2, v3) ==
    LET D == CommonDenominator(v1, v2, v3)
        X(v) == v.position.x.n * (D \div v.position.x.d)
        Y(v) == v.position.y.n * (D \div v.position.y.d)
        edge1_x == X(v2) - X(v1)
        edge1_y == Y(v2) - Y(v1)
        edge2_x == X(v3) - X(v1)
        edge2_y == Y(v3) - Y(v1)
        cross_product_z == edge1_x * edge2_y - edge1_y * edge2_x
    IN  cross_product_z < 0

\* no draw call in progress.  tv holds the vertices of the current triangle
\* transformed so far, clip_space the clip-space vector of the last of them
NoClip == [x |-> 0, y |-> 0, z |-> 0, w |-> 0, set |-> FALSE]

\* commands is the list execute_3d_cube_rendering was last called with and
\* draw_calls the calls of render_3d_cube_software it made, with their
\* arguments.
\* The fields from vertices to cleared_after_draw belong to the indexed drawing of
\* gibgoGraphics: the stored vertex buffer, the parameters of the draw call,
\* the number of draw calls of the frame, and the history of the frame:
\* drawn lists the triangles rasterized (their first entry in cube_indices),
\* frame_drawn the pixels a triangle of the frame wrote, cleared_after_draw
\* those of them a later clear of the frame overwrote
RasterIdle == [pc |-> "idle", i |-> 0, vertex_count |-> 0, first_vertex |-> 0,
               face_culling_enabled |-> TRUE, tv |-> <<>>,
               clip_space |-> NoClip,
               triangles_rendered |-> 0, triangles_clipped |-> 0,
               vertices |-> <<>>, index_count |-> 0, first_index |-> 0,
               draws |-> 0, drawn |-> <<>>, frame_drawn |-> {},
               cleared_after_draw |-> {},
               commands |-> <<>>, draw_calls |-> <<>>]

\* execute_3d_cube_rendering on a list recorded by gibgo_draw_primitives with
\* a vertex buffer bound: the parse loop executes CLEAR_FRAMEBUFFER, which
\* gibgo_draw_primitives records before DRAW_PRIMITIVES, and takes the
\* culling flag and the draw parameters; render_3d_cube_software then maps
\* the buffers and enters its loop at i = first_vertex
execute_3d_cube_rendering_draw(face_culling_enabled, vertex_count, first_vertex) ==
    /\ raster.pc = "idle"
    /\ vertex_count > 0
    /\ framebuffer' = [p \in Pixels |-> CommandClearColor]
    /\ raster' = [raster EXCEPT
                     !.triangles_rendered = 0, !.triangles_clipped = 0,
                     !.pc = IF first_vertex < vertex_count /\ first_vertex + 2 < vertex_count
                            THEN "render" ELSE "idle",
                     !.i = first_vertex,
                     !.vertex_count = vertex_count,
                     !.first_vertex = first_vertex,
                     !.face_culling_enabled = face_culling_enabled]
    /\ UNCHANGED depth_buffer
    /\ UNCHANGED <<allocVars, cmdVars, ret>>

\* one transform_vertex_to_screen call of the loop body of
\* render_3d_cube_software, on the next vertex of the triangle at i
transform_step(clip_space) ==
    /\ raster.pc = "render"
    /\ Len(raster.tv) < 3
    /\ raster' = [raster EXCEPT
                     !.tv = Append(@, transform_vertex_to_screen(
                                          clip_space, FramebufferWidth, FramebufferHeight)),
                     !.clip_space = [x |-> clip_space.x, y |-> clip_space.y,
                                     z |-> clip_space.z, w |-> clip_space.w,
                                     set |-> TRUE]]
    /\ UNCHANGED <<framebuffer, depth_buffer>>
    /\ UNCHANGED <<allocVars, cmdVars, ret>>

\* the test of the loop body without the face culling step
TriangleDrawn_NoCulling(r) ==
    r.tv[1].is_valid /\ r.tv[2].is_valid /\ r.tv[3].is_valid

\* the test of the loop body looking at the first vertex only
TriangleDrawn_FirstVertexOnly(r) ==
    /\ r.tv[1].is_valid
    /\ ~(r.face_culling_enabled /\ is_triangle_back_facing(r.tv[1], r.tv[2], r.tv[3]))

\* the triangle at i is drawn: all three vertices are valid and the
\* triangle is not culled
TriangleDrawn(r) ==
    /\ r.tv[1].is_valid /\ r.tv[2].is_valid /\ r.tv[3].is_valid
    /\ ~(r.face_culling_enabled /\ is_triangle_back_facing(r.tv[1], r.tv[2], r.tv[3]))

\* the rest of the loop body of render_3d_cube_software, once the three
\* vertices are transformed: skip the triangle (continue) when a vertex is
\* invalid or the triangle is culled, else rasterize it; then i += 3 and
\* the loop test
triangle_step ==
    /\ raster.pc = "render"
    /\ Len(raster.tv) = 3
    /\ LET next_i == raster.i + 3
       IN  /\ IF TriangleDrawn(raster)
              THEN /\ framebuffer' = rasterize_triangle(
                                         framebuffer, FramebufferWidth, FramebufferHeight,
                                         raster.tv[1], raster.tv[2], raster.tv[3])
                   /\ raster' = [raster EXCEPT
                                    !.triangles_rendered = @ + 1,
                                    !.tv = <<>>, !.clip_space = NoClip, !.i = next_i,
                                    !.pc = IF next_i < raster.vertex_count
                                              /\ next_i + 2 < raster.vertex_count
                                           THEN "render" ELSE "idle"]
              ELSE /\ framebuffer' = framebuffer
                   /\ raster' = [raster EXCEPT
                                    !.triangles_clipped = @ + 1,
                                    !.tv = <<>>, !.clip_space = NoClip, !.i = next_i,
                                    !.pc = IF next_i < raster.vertex_count
                                              /\ next_i + 2 < raster.vertex_count
                                           THEN "render" ELSE "idle"]
    /\ UNCHANGED depth_buffer
    /\ UNCHANGED <<allocVars, cmdVars, ret>>

(***************************************************************************)
(* The indexed drawing of gibgoGraphics (vertex.vert): the cube of the     *)
(* stored vertex buffer, rasterized with a depth buffer.                   *)
(***************************************************************************)
f32_add(a, b) == Rat(a.n * b.d + b.n * a.d, a.d * b.d)

f32_sub(a, b) == Rat(a.n * b.d - b.n * a.d, a.d * b.d)

f32_mul(a, b) == Rat(a.n * b.n, a.d * b.d)

\* float scale = 150.0f
scale == 150

\* depth_buffer[i] = 1000.0f, the value the depth buffer is cleared to
DepthClear == 1000

\* the colour bits of 0xFF000033, the background of the indexed drawing.
\* A pixel of the indexed drawing is modelled by its 24 colour bits; the
\* alpha byte is 0xFF in every pixel written
IndexedClearColor == 51

\* stored_vertex_count of the uploaded cube
stored_vertex_count == 24

\* const u16 cube_indices[36]; entry k of the source is cube_indices[k + 1]
cube_indices ==
    <<0, 1, 2, 0, 2, 3,  4, 6, 5, 4, 7, 6,  8, 9, 10, 8, 10, 11,
      12, 14, 13, 12, 15, 14,  16, 18, 17, 16, 19, 18,  20, 21, 22, 20, 22, 23>>

\* model_matrix as transform_vertex reads it at global_frame_count = 0:
\* cos_angle = cols[0].x = cosf(0), sin_angle = cols[1].x = F32_ZERO
model_matrix == [cos_angle |-> Rat(1, 1), sin_angle |-> F32_ZERO]

\* transform_vertex: the rotation by the two matrix elements; z is kept
transform_vertex(vertex, model) ==
    [x |-> f32_sub(f32_mul(vertex.position.x, model.cos_angle),
                   f32_mul(vertex.position.y, model.sin_angle)),
     y |-> f32_add(f32_mul(vertex.position.x, model.sin_angle),
                   f32_mul(vertex.position.y, model.cos_angle)),
     z |-> vertex.position.z]

\* the screen coordinates rasterize_triangle derives from a transformed
\* vertex: x = tv.x * scale + width / 2, y = -tv.y * scale + height / 2
\* (width / 2 is the integer division of the u32), z = tv.z
ScreenVertex(vertex, model, width, height) ==
    LET tv == transform_vertex(vertex, model)
    IN  [x |-> f32_add(f32_mul(tv.x, Rat(scale, 1)), Rat(width \div 2, 1)),
         y |-> f32_add(f32_mul(Rat(-tv.y.n, tv.y.d), Rat(scale, 1)),
                       Rat(height \div 2, 1)),
         z |-> tv.z,
         color |-> vertex.color]

\* the barycentric weights of pixel (px, py) in the triangle s0 s1 s2, as
\* numerators n0, n1, n2 over denom.  Coordinates are scaled by their common
\* denominator D, which scales all four by D * D; the signs are normalised
\* so that denom > 0
Barycentric(px, py, s0, s1, s2) ==
    LET D == LCM(LCM(LCM(s0.x.d, s0.y.d), LCM(s1.x.d, s1.y.d)), LCM(s2.x.d, s2.y.d))
        X(s) == s.x.n * (D \div s.x.d)
        Y(s) == s.y.n * (D \div s.y.d)
        x == px * D
        y == py * D
        denom == (Y(s1) - Y(s2)) * (X(s0) - X(s2)) + (X(s2) - X(s1)) * (Y(s0) - Y(s2))
        n0 == (Y(s1) - Y(s2)) * (x - X(s2)) + (X(s2) - X(s1)) * (y - Y(s2))
        n1 == (Y(s2) - Y(s0)) * (x - X(s2)) + (X(s0) - X(s2)) * (y - Y(s2))
        sgn == IF denom < 0 THEN -1 ELSE 1
    IN  [degenerate |-> f32_abs(denom) * 1000000 < D * D,
         denom |-> sgn * denom,
         n0 |-> sgn * n0,
         n1 |-> sgn * n1,
         n2 |-> sgn * (denom - n0 - n1)]

\* the one element of a singleton set; a value computed once and then used
\* in several places is bound through it
Only(S) == CHOOSE x \in S : TRUE

\* the fragment of a pixel from its barycentric weights b: whether the pixel
\* is inside (w0, w1, w2 >= 0), the interpolated depth z and the packed colour
FragmentOf(b, s0, s1, s2) ==
    LET Dz == LCM(LCM(s0.z.d, s1.z.d), s2.z.d)
        Z(s) == s.z.n * (Dz \div s.z.d)
        level == IF b.degenerate THEN 0
                 ELSE ((b.n0 * s0.color + b.n1 * s1.color + b.n2 * s2.color) * 255)
                          \div b.denom
        channel == IF level < 0 THEN 0 ELSE IF level > 255 THEN 255 ELSE level
    IN  [inside |-> ~b.degenerate /\ b.n0 >= 0 /\ b.n1 >= 0 /\ b.n2 >= 0,
         z |-> IF b.degenerate THEN F32_ZERO
               ELSE Rat(b.n0 * Z(s0) + b.n1 * Z(s1) + b.n2 * Z(s2), b.denom * Dz),
         color |-> channel * 65536 + channel * 256 + channel]

\* the fragment of the triangle s0 s1 s2 at pixel (px, py)
Fragment(px, py, s0, s1, s2) ==
    Only({FragmentOf(b, s0, s1, s2) : b \in {Barycentric(px, py, s0, s1, s2)}})

\* the depth test of rasterize_triangle: z < depth_buffer[pixel_index]
DepthTest(z, stored) == f32_lt(z, stored)

\* the pixels of the clamped bounding box of rasterize_triangle
BoxPixels(s0, s1, s2, width, height) ==
    LET min_x == f32_to_i32(f32_max(F32_ZERO, f32_min(f32_min(s0.x, s1.x), s2.x)))
        max_x == f32_to_i32(f32_min(Rat(width - 1, 1), f32_max(f32_max(s0.x, s1.x), s2.x)))
        min_y == f32_to_i32(f32_max(F32_ZERO, f32_min(f32_min(s0.y, s1.y), s2.y)))
        max_y == f32_to_i32(f32_min(Rat(height - 1, 1), f32_max(f32_max(s0.y, s1.y), s2.y)))
    IN  (min_x .. max_x) \X (min_y .. max_y)

\* the screen vertices of the three vertices of a triangle
ScreenTriangle(v0, v1, v2, model, width, height) ==
    <<ScreenVertex(v0, model, width, height),
      ScreenVertex(v1, model, width, height),
      ScreenVertex(v2, model, width, height)>>

\* the fragment of every pixel of the bounding box of the screen triangle s,
\* by pixel index y * width + x
Fragments(s, width, height) ==
    [p \in {q[2] * width + q[1] : q \in BoxPixels(s[1], s[2], s[3], width, height)} |->
        Fragment(p % width, p \div width, s[1], s[2], s[3])]

\* the pixel indices at which the inside test and the depth test pass
PassedPixels(frag, depth) ==
    {p \in DOMAIN frag : frag[p].inside /\ DepthTest(frag[p].z, depth[p])}

\* the buffers after the passed pixels took their fragment's depth and colour
WriteFragments(fb, depth, frag, passed) ==
    [framebuffer |-> [p \in DOMAIN fb |-> IF p \in passed THEN frag[p].color ELSE fb[p]],
     depth_buffer |-> [p \in DOMAIN depth |-> IF p \in passed THEN frag[p].z ELSE depth[p]],
     passed |-> passed]

\* rasterize_triangle of vertex.vert: the framebuffer and the depth buffer
\* after the two loops over the bounding box
rasterize_triangle_gfx(fb, depth, width, height, v0, v1, v2, model) ==
    Only({Only({Only({WriteFragments(fb, depth, frag, passed) :
                          passed \in {PassedPixels(frag, depth)}}) :
                    frag \in {Fragments(s, width, height)}}) :
              s \in {ScreenTriangle(v0, v1, v2, model, width, height)}})

\* the three vertices of the triangle whose indices start at entry k of
\* cube_indices
TriangleVertices(vertices, k) ==
    <<vertices[cube_indices[k + 1]], vertices[cube_indices[k + 2]],
      vertices[cube_indices[k + 3]]>>

\* gpu_execute_indexed_drawing up to its loop: the framebuffer is cleared to
\* the background, a depth buffer is allocated and cleared to 1000.0, the
\* stored vertices (at least 24) are taken
gpu_execute_indexed_drawing_begin(index_count, first_index) ==
    /\ raster.pc = "idle"
    /\ raster.draws < MaxDraws
    /\ framebuffer' = [p \in Pixels |-> IndexedClearColor]
    /\ depth_buffer' = [p \in Pixels |-> Rat(DepthClear, 1)]
    /\ raster' = [raster EXCEPT
                     !.pc = "indexed", !.i = 0,
                     !.index_count = index_count, !.first_index = first_index,
                     !.draws = @ + 1,
                     !.triangles_rendered = 0,
                     !.cleared_after_draw = @ \cup raster.frame_drawn]
    /\ UNCHANGED <<allocVars, cmdVars, ret>>

\* one pass of the loop of gpu_execute_indexed_drawing: the loop test, then
\* the triangle at first_index + i is rasterized and i += 3; when the loop
\* ends the depth buffer is freed
indexed_step ==
    /\ raster.pc = "indexed"
    /\ IF raster.i < raster.index_count /\ raster.i + 2 < raster.index_count
       THEN LET k == raster.first_index + raster.i
                t == TriangleVertices(raster.vertices, k)
            IN  \E out \in {rasterize_triangle_gfx(framebuffer, depth_buffer,
                                                    FramebufferWidth, FramebufferHeight,
                                                    t[1], t[2], t[3], model_matrix)} :
                /\ framebuffer' = out.framebuffer
                /\ depth_buffer' = out.depth_buffer
                /\ raster' = [raster EXCEPT
                                 !.i = @ + 3,
                                 !.triangles_rendered = @ + 1,
                                 !.drawn = Append(@, k),
                                 !.frame_drawn = @ \cup out.passed]
       ELSE /\ framebuffer' = framebuffer
            /\ depth_buffer' = <<>>
            /\ raster' = [raster EXCEPT !.pc = "idle"]
    /\ UNCHANGED <<allocVars, cmdVars, ret>>

vars == <<vram_allocation_offset, memory_pool, pool_bytes, current_commands,
          current_command_count, max_commands, cmd_ring, registers, device,
          context, proc, ring_log, lists_begun, alloc_log, ret, framebuffer,
          depth_buffer, raster>>

EmptyPool == [pool_used |-> 0, allocation_count |-> 0,
              allocations |-> [i \in Slots |-> EmptySlot]]

\* sizeof(GibgoVertex): two Vec3f
sizeof_GibgoVertex == 24

\* sizeof(GibgoUniformBuffer): four Mat4f, a Vec3f and an f32
sizeof_GibgoUniformBuffer == 272

\* the entry of alloc_log for a successful allocate call
LogEntry(o, request) ==
    [address |-> o.address, size |-> o.aligned, request |-> request, written |-> 0]

\* the state of the device and the context for a given content of the
\* register block, a given state of the device memory (bump offset, pool,
\* log of the allocations made) and given buffers of the context: the
\* device is calloc'ed, the ring is empty, fence_counter is 1, and the
\* context holds frame_fence 1 and frame index 0
DeviceState(regs, offset, pool, log, framebuffer_address, vertex_buffer, uniform_buffer) ==
    /\ vram_allocation_offset = offset
    /\ memory_pool = pool
    /\ alloc_log = log
    /\ pool_bytes = [p \in CpuBlocks |-> 0]
    /\ current_commands = NullList
    /\ current_command_count = 0
    /\ max_commands = 0
    /\ cmd_ring = [command_buffer |-> [k \in RingSlots |-> ZeroCommand],
                   head_offset |-> 0, tail_offset |-> 0]
    /\ registers = regs
    /\ device = [fence_counter |-> 1, commands_submitted |-> 0,
                 frames_rendered |-> 0]
    /\ context = [frame_fence |-> 1, current_frame_index |-> 0,
                  framebuffer_address |-> framebuffer_address,
                  framebuffer_width |-> FramebufferWidth,
                  framebuffer_height |-> FramebufferHeight,
                  framebuffer_format |-> framebuffer_format,
                  vertex_buffer_address |-> vertex_buffer.address,
                  vertex_buffer_stride |-> vertex_buffer.stride,
                  uniform_buffer_address |-> uniform_buffer.address,
                  uniform_buffer_size |-> uniform_buffer.size]
    /\ proc = Idle
    /\ ring_log = RingLogInit
    /\ lists_begun = 0
    /\ ret = NoCall
    /\ framebuffer = [p \in Pixels |-> DeviceClearColor]
    /\ depth_buffer = <<>>

\* no vertex buffer uploaded, no uniform buffer set
NoVertexBuffer == [address |-> 0, stride |-> 0]

NoUniformBuffer == [address |-> 0, size |-> 0]

\* the state after gibgo_create_device and gibgo_create_context, for a given
\* content of the register block: the context holds the framebuffer it
\* allocated
Created(regs) ==
    LET request == FramebufferWidth * FramebufferHeight * 4
        fb == AllocateOutcome(0, EmptyPool, request)
    IN  /\ fb.result = GIBGO_RESULT_SUCCESS
        /\ DeviceState(regs, fb.offset, fb.pool, <<LogEntry(fb, request)>>,
                       fb.address, NoVertexBuffer, NoUniformBuffer)

\* the DRM device: the register block is the framebuffer, cleared to
\* 0xFF222222 by gibgo_create_device
Init ==
    /\ Created([r \in RegisterNames |-> DeviceClearColor])
    /\ raster = RasterIdle

\* a device whose register block is hardware: the command processor is
\* stopped, its pointers and the fence word are zero
InitHw ==
    /\ Created([r \in RegisterNames |-> 0])
    /\ raster = RasterIdle

(***************************************************************************)
(* execute_3d_cube_rendering on a whole command list (gpu_commands.c of    *)
(* the DRM rotating cube): the loop over the commands, then at most one    *)
(* call of render_3d_cube_software.                                        *)
(***************************************************************************)
\* the locals of execute_3d_cube_rendering before the loop; cleared tells
\* whether a CLEAR_FRAMEBUFFER was executed
RenderingState ==
    [vertex_buffer_address |-> 0, uniform_buffer_address |-> 0,
     vertex_count |-> 0, first_vertex |-> 0,
     face_culling_enabled |-> TRUE, cleared |-> FALSE]

\* ((u64)param1 << 32) | param0
Address64(cmd) == (cmd.param1 * U32 + cmd.param0) % U64

\* one pass of the switch of the loop
ParseCommand(s, cmd) ==
    IF cmd.command_type = "SET_UNIFORM_BUFFER"
    THEN [s EXCEPT !.uniform_buffer_address = Address64(cmd)]
    ELSE IF cmd.command_type = "SET_VERTEX_BUFFER"
    THEN [s EXCEPT !.vertex_buffer_address = Address64(cmd)]
    ELSE IF cmd.command_type = "DRAW_PRIMITIVES"
    THEN [s EXCEPT !.vertex_count = cmd.param0, !.first_vertex = cmd.param1]
    ELSE IF cmd.command_type = "ENABLE_FACE_CULLING"
    THEN [s EXCEPT !.face_culling_enabled = (cmd.param0 # 0)]
    ELSE IF cmd.command_type = "CLEAR_FRAMEBUFFER"
    THEN [s EXCEPT !.cleared = TRUE]
    ELSE s

\* the loop over the commands, from the locals s
RECURSIVE ParseCommands(_, _)
ParseCommands(s, commands) ==
    IF commands = <<>> THEN s
    ELSE ParseCommands(ParseCommand(s, Head(commands)), Tail(commands))

\* the two gibgo_map_gpu_memory calls at the head of
\* render_3d_cube_software succeed
BuffersMapped(s) ==
    /\ MapOutcome(memory_pool, s.vertex_buffer_address,
                  (s.vertex_count * sizeof_GibgoVertex) % U64).result
          = GIBGO_RESULT_SUCCESS
    /\ MapOutcome(memory_pool, s.uniform_buffer_address,
                  sizeof_GibgoUniformBuffer).result
          = GIBGO_RESULT_SUCCESS

\* the arguments of a render_3d_cube_software call
DrawArguments(s) ==
    [vertex_buffer_address |-> s.vertex_buffer_address,
     uniform_buffer_address |-> s.uniform_buffer_address,
     vertex_count |-> s.vertex_count,
     first_vertex |-> s.first_vertex,
     face_culling_enabled |-> s.face_culling_enabled]

\* execute_3d_cube_rendering(device, commands, command_count): the loop,
\* then render_3d_cube_software is called if a vertex buffer and a vertex
\* count are known; it returns at once if a buffer cannot be mapped and
\* else enters its loop at i = first_vertex
execute_3d_cube_rendering_list(commands) ==
    /\ raster.pc = "idle"
    /\ \E s \in {ParseCommands(RenderingState, commands)} :
        LET called == s.vertex_buffer_address # 0 /\ s.vertex_count > 0
            looping == /\ called
                       /\ BuffersMapped(s)
                       /\ s.first_vertex < s.vertex_count
                       /\ s.first_vertex + 2 < s.vertex_count
        IN  /\ framebuffer' = IF s.cleared
                              THEN [p \in Pixels |-> CommandClearColor]
                              ELSE framebuffer
            /\ raster' = [raster EXCEPT
                             !.commands = commands,
                             !.draw_calls = IF called THEN <<DrawArguments(s)>> ELSE <<>>,
                             !.triangles_rendered = 0, !.triangles_clipped = 0,
                             !.pc = IF looping THEN "render" ELSE "idle",
                             !.i = s.first_vertex,
                             !.vertex_count = s.vertex_count,
                             !.first_vertex = s.first_vertex,
                             !.face_culling_enabled = s.face_culling_enabled]
    /\ UNCHANGED depth_buffer
    /\ UNCHANGED <<allocVars, cmdVars, ret>>

\* the state after create_device, create_context, gibgo_upload_vertices of
\* six vertices and the allocation of a uniform buffer by
\* gibgo_set_uniform_buffer_data
InitReplay ==
    LET request == FramebufferWidth * FramebufferHeight * 4
        fb == AllocateOutcome(0, EmptyPool, request)
        vb == AllocateOutcome(fb.offset, fb.pool, 6 * sizeof_GibgoVertex)
        ub == AllocateOutcome(vb.offset, vb.pool, sizeof_GibgoUniformBuffer)
    IN  /\ fb.result = GIBGO_RESULT_SUCCESS
        /\ vb.result = GIBGO_RESULT_SUCCESS
        /\ ub.result = GIBGO_RESULT_SUCCESS
        /\ DeviceState([r \in RegisterNames |-> DeviceClearColor],
                       ub.offset, ub.pool,
                       <<LogEntry(fb, request),
                         LogEntry(vb, 6 * sizeof_GibgoVertex),
                         LogEntry(ub, sizeof_GibgoUniformBuffer)>>,
                       fb.address,
                       [address |-> vb.address, stride |-> sizeof_GibgoVertex],
                       [address |-> ub.address, size |-> sizeof_GibgoUniformBuffer])
        /\ raster = RasterIdle

(***************************************************************************)
(* Inputs of the calls, and the specifications.                            *)
(***************************************************************************)
AllocateCall == \E size \in AllocSizes : gibgo_allocate_gpu_memory(size)
FreeCall == \E address \in MapAddresses, size \in MapSizes : gibgo_free_gpu_memory(address, size)
MapCall == \E address \in MapAddresses, size \in MapSizes : gibgo_map_gpu_memory(address, size)
UnmapCall == \E p \in CpuPointers, size \in MapSizes : gibgo_unmap_gpu_memory(p, size)

\* the allocator alone
NextAlloc ==
    \/ AllocateCall
    \/ FreeCall
    \/ MapCall
    \/ UnmapCall

SpecAlloc == Init /\ [][NextAlloc]_vars

ByteValues == {1, 2}

WriteCall == \E i \in 1 .. Len(alloc_log), v \in ByteValues : write_mapped(i, v)
ReadCall == \E i \in 1 .. Len(alloc_log) : read_mapped(i)

\* the allocator with a caller that writes and reads its allocations
NextMem ==
    \/ AllocateCall
    \/ FreeCall
    \/ UnmapCall
    \/ WriteCall
    \/ ReadCall

SpecMem == Init /\ [][NextMem]_vars

SetViewportCall == gibgo_set_viewport(FramebufferWidth \div 2, FramebufferHeight \div 2)
DrawCall == gibgo_draw_primitives(3, 0)
WaitCall == gibgo_wait_for_completion(context.frame_fence)

\* the calls that record into the list, common to the three drivers
Recording ==
    \/ gibgo_begin_commands
    \/ gibgo_end_commands
    \/ SetViewportCall
    \/ DrawCall
    \/ gibgo_present_frame

\* directDrm rotating cube: software execution, the ring is only written
NextDrm ==
    \/ Recording
    \/ gibgo_submit_commands_drm
    \/ ring_write_step
    \/ submit_return
    \/ WaitCall
    \/ wait_step

SpecDrm == Init /\ [][NextDrm]_vars

(***************************************************************************)
(* The uniform buffer of the DRM rotating cube: gibgo_set_uniform_buffer   *)
(* of gpu_commands.c and gibgo_set_uniform_buffer_data of the graphics     *)
(* layer, which the frame loop calls once per frame.                       *)
(***************************************************************************)
GIBGO_SUCCESS == "GIBGO_SUCCESS"
GIBGO_ERROR_INITIALIZATION_FAILED == "GIBGO_ERROR_INITIALIZATION_FAILED"
GIBGO_ERROR_DEVICE_LOST == "GIBGO_ERROR_DEVICE_LOST"
GIBGO_ERROR_OUT_OF_MEMORY == "GIBGO_ERROR_OUT_OF_MEMORY"
GIBGO_ERROR_INVALID_PARAMETER == "GIBGO_ERROR_INVALID_PARAMETER"

\* the switch of convert_result over the results the driver returns
convert_result(internal_result) ==
    IF internal_result = GIBGO_RESULT_SUCCESS
    THEN GIBGO_SUCCESS
    ELSE IF internal_result = GIBGO_RESULT_ERROR_OUT_OF_MEMORY
    THEN GIBGO_ERROR_OUT_OF_MEMORY
    ELSE IF internal_result \in {GIBGO_RESULT_ERROR_GPU_TIMEOUT,
                                 GIBGO_RESULT_ERROR_COMMAND_FAILED}
    THEN GIBGO_ERROR_DEVICE_LOST
    ELSE GIBGO_ERROR_INVALID_PARAMETER

\* the context after gibgo_set_uniform_buffer stored its arguments
BindUniformBuffer(ctx, buffer_address, buffer_size) ==
    [ctx EXCEPT !.uniform_buffer_address = buffer_address,
                !.uniform_buffer_size = buffer_size]

SetUniformBufferCommand(buffer_address, buffer_size) ==
    GPUCommand("SET_UNIFORM_BUFFER", Low32(buffer_address), High32(buffer_address),
               buffer_size)

\* gibgo_set_uniform_buffer: stores the buffer in the context, then appends
gibgo_set_uniform_buffer(buffer_address, buffer_size) ==
    LET r == add_command(CurrentList,
                         SetUniformBufferCommand(buffer_address, buffer_size))
    IN  /\ proc.pc = "idle"
        /\ context' = BindUniformBuffer(context, buffer_address, buffer_size)
        /\ SetList(r.list)
        /\ ret' = Call("set_uniform_buffer", buffer_address, buffer_size, r.result, 0)
        /\ UNCHANGED <<cmd_ring, registers, device, proc, ring_log, lists_begun>>
        /\ UNCHANGED <<allocVars, rasterVars>>

\* gibgo_set_uniform_buffer_data: a new allocation on every call, the data
\* copied through a mapping of it, then gibgo_set_uniform_buffer
gibgo_set_uniform_buffer_data(data, size) ==
    LET o == AllocateOutcome(vram_allocation_offset, memory_pool, size)
        m == MapOutcome(o.pool, o.address, size)
        mapped == m.result = GIBGO_RESULT_SUCCESS
        r == add_command(CurrentList, SetUniformBufferCommand(o.address, size))
    IN  /\ proc.pc = "idle"
        /\ IF o.result # GIBGO_RESULT_SUCCESS
           THEN /\ ret' = Call("set_uniform_buffer_data", data, size,
                               convert_result(o.result), 0)
                /\ UNCHANGED <<allocVars, listVars, context>>
           ELSE /\ vram_allocation_offset' = o.offset
                /\ memory_pool' = o.pool
                /\ alloc_log' = Append(alloc_log,
                                       [LogEntry(o, size) EXCEPT
                                           !.written = IF mapped THEN data ELSE 0])
                /\ pool_bytes' = IF mapped
                                 THEN [pool_bytes EXCEPT ![m.cpu_address] = data]
                                 ELSE pool_bytes
                /\ context' = BindUniformBuffer(context, o.address, size)
                /\ SetList(r.list)
                /\ ret' = Call("set_uniform_buffer_data", data, size,
                               convert_result(r.result), o.address)
        /\ UNCHANGED <<cmd_ring, registers, device, proc, ring_log, lists_begun>>
        /\ UNCHANGED rasterVars

UniformBufferCall ==
    gibgo_set_uniform_buffer(physical_address + GPU_MEMORY_ALIGNMENT,
                             sizeof_GibgoUniformBuffer)

\* directDrm rotating cube with a caller that binds a uniform buffer
NextUniform ==
    \/ NextDrm
    \/ UniformBufferCall

SpecUniform == Init /\ [][NextUniform]_vars

UniformSizes == {16, sizeof_GibgoUniformBuffer}

UniformBufferDataCall ==
    \E data \in ByteValues, size \in UniformSizes :
        gibgo_set_uniform_buffer_data(data, size)

\* the frame loop of the DRM rotating cube: begin, uniform data, draw,
\* present, submit, wait
NextFrame ==
    \/ gibgo_begin_commands
    \/ UniformBufferDataCall
    \/ DrawCall
    \/ gibgo_present_frame
    \/ gibgo_submit_commands_drm
    \/ ring_write_step
    \/ submit_return
    \/ WaitCall
    \/ wait_step

SpecFrame == Init /\ [][NextFrame]_vars

\* gibgoGraphics rotating cube: the ring is executed at the end of submit
NextGfx ==
    \/ Recording
    \/ gibgo_submit_commands
    \/ ring_write_step
    \/ submit_return_gfx
    \/ WaitCall
    \/ wait_step

SpecGfx == Init /\ [][NextGfx]_vars

\* triangle: the ring is written for a command processor that runs on its own
NextHw ==
    \/ Recording
    \/ gibgo_submit_commands
    \/ ring_write_step
    \/ submit_return
    \/ WaitCall
    \/ wait_step
    \/ command_processor_step

SpecHw == InitHw /\ [][NextHw]_vars

\* the clip-space vectors of the vertices the model draws: w negative,
\* zero and positive, x and y inside and outside [-|w|, |w|], two depths
ClipVectors == [x : {-1, 2}, y : {-1, 2}, z : {0, 3}, w : {-1, 0, 1, 2}]

\* vertex_count and first_vertex of the DRAW_PRIMITIVES command: one
\* triangle, one triangle and two spare vertices, two triangles
VertexCounts == {3, 5, 6}

FirstVertices == {0, 3}

RenderCall ==
    \E face_culling_enabled \in BOOLEAN, vertex_count \in VertexCounts,
       first_vertex \in FirstVertices :
        execute_3d_cube_rendering_draw(face_culling_enabled, vertex_count, first_vertex)

TransformCall == \E clip_space \in ClipVectors : transform_step(clip_space)

\* the software rasterizer of the DRM rotating cube
NextRaster ==
    \/ RenderCall
    \/ TransformCall
    \/ triangle_step

SpecRaster == Init /\ [][NextRaster]_vars

\* the vertices of the model's cube: positions are multiples of 1 / scale,
\* two units either side of the screen centre; depths 1 and the far value
CubePositions == [x : {Rat(-2, scale), Rat(2, scale)},
                  y : {Rat(-2, scale), Rat(2, scale)},
                  z : {Rat(1, 1), Rat(DepthClear, 1)}]

\* the vertex buffers gibgo_upload_vertices stored.  The four vertices of
\* the front face vary: vertices 0 and 2, which its two triangles share,
\* lie on a diagonal at either depth, vertices 1 and 3 lie anywhere; vertex
\* 1 is white and the others black.  The remaining vertices are fixed
VertexBuffers ==
    {[k \in 0 .. (stored_vertex_count - 1) |->
         [position |->
             IF k = 0 THEN [x |-> Rat(-2, scale), y |-> Rat(-2, scale), z |-> z0]
             ELSE IF k = 1 THEN v1
             ELSE IF k = 2 THEN [x |-> Rat(2, scale), y |-> Rat(2, scale), z |-> z2]
             ELSE IF k = 3 THEN v3
             ELSE [x |-> Rat(IF k % 2 = 0 THEN -2 ELSE 2, scale),
                   y |-> Rat(IF k % 4 < 2 THEN -2 ELSE 2, scale),
                   z |-> Rat(2, 1)],
          color |-> IF k = 1 THEN 1 ELSE 0]] :
        <<v1, v3, z0, z2>> \in CubePositions \X CubePositions
                               \X {Rat(1, 1), Rat(DepthClear, 1)}
                               \X {Rat(1, 1), Rat(DepthClear, 1)}}

\* index_count and first_index of the DRAW_INDEXED command
IndexCounts == {3, 6}

FirstIndices == {0, 3}

DrawIndexedCall ==
    \E index_count \in IndexCounts, first_index \in FirstIndices :
        gpu_execute_indexed_drawing_begin(index_count, first_index)

\* the device of gibgoGraphics with a cube uploaded
InitIndexed ==
    /\ Created([r \in RegisterNames |-> DeviceClearColor])
    /\ \E vb \in VertexBuffers : raster = [RasterIdle EXCEPT !.vertices = vb]

\* the DRAW_INDEXED commands of one frame, executed by the command ring
NextIndexed ==
    \/ DrawIndexedCall
    \/ indexed_step

SpecIndexed == InitIndexed /\ [][NextIndexed]_vars

\* number of recording calls that make up a command list given to
\* execute_3d_cube_rendering
MaxReplayCalls == 3

\* the commands gibgo_draw_primitives_internal records
RecordedDraw(vertex_count, first_vertex) ==
    <<GPUCommand("SET_VERTEX_BUFFER", Low32(context.vertex_buffer_address),
                 High32(context.vertex_buffer_address), context.vertex_buffer_stride),
      GPUCommand("CLEAR_FRAMEBUFFER", 0, 0, 0),
      GPUCommand("DRAW_PRIMITIVES", vertex_count, first_vertex, 0)>>

\* the command gibgo_set_uniform_buffer records
RecordedUniformBuffer ==
    <<GPUCommand("SET_UNIFORM_BUFFER", Low32(context.uniform_buffer_address),
                 High32(context.uniform_buffer_address), context.uniform_buffer_size)>>

\* the command gibgo_enable_face_culling records
RecordedFaceCulling(enable) ==
    <<GPUCommand("ENABLE_FACE_CULLING", IF enable THEN 1 ELSE 0, 0, 0)>>

\* the recording calls of the lists: a draw of one triangle, a draw of two,
\* the uniform buffer, face culling on and off
ReplayCalls ==
    {RecordedDraw(3, 0), RecordedDraw(6, 0), RecordedUniformBuffer,
     RecordedFaceCulling(TRUE), RecordedFaceCulling(FALSE)}

\* the lists recorded by at most n of these calls
RECURSIVE ListsOfCalls(_)
ListsOfCalls(n) ==
    IF n = 0 THEN {<<>>}
    ELSE ListsOfCalls(n - 1)
            \cup {l \o c : l \in ListsOfCalls(n - 1), c \in ReplayCalls}

ReplayLists == ListsOfCalls(MaxReplayCalls)

\* the clip-space vectors of the vertices these lists draw: three corners
\* inside the frustum
ReplayVectors == {v \in ClipVectors : v.w = 2 /\ v.z = 0 /\ (v.x = 2 \/ v.y = -1)}

ReplayCall == \E commands \in ReplayLists : execute_3d_cube_rendering_list(commands)

ReplayTransformCall == \E clip_space \in ReplayVectors : transform_step(clip_space)

\* execute_3d_cube_rendering on recorded lists
NextReplay ==
    \/ ReplayCall
    \/ ReplayTransformCall
    \/ triangle_step

SpecReplay == InitReplay /\ [][NextReplay]_vars

Next == NextAlloc \/ NextDrm

Spec == Init /\ [][Next]_vars

(***************************************************************************)
(* Claims about the allocator (checked under SpecAlloc).                   *)
(***************************************************************************)
LogIndex == 1 .. Len(alloc_log)

\* C1: the GPU addresses returned by the successful allocate calls are
\* strictly increasing in call order, and the ranges
\* [address, address + rounded size) of two successful allocations do not
\* overlap.
C1_AddressesIncreasingDisjoint ==
    \A i, j \in LogIndex :
        i < j =>
            /\ alloc_log[i].address < alloc_log[j].address
            /\ alloc_log[i].address + alloc_log[i].size <= alloc_log[j].address

\* C2: for a request of size > 0, allocate returns OUT_OF_MEMORY exactly
\* when the bump pointer plus the size rounded up to the alignment exceeds
\* the region size or every slot of the allocation table is in use, and a
\* failed allocate leaves the bump pointer, the used-bytes counter and the
\* table unchanged.
C2_OutOfMemoryExactly ==
    [][(ret'.op = "allocate" /\ ret'.a0 # 0) =>
          /\ (ret'.result = GIBGO_RESULT_ERROR_OUT_OF_MEMORY) <=>
                \/ vram_allocation_offset
                     + align_gpu_memory_nowrap(ret'.a0, GPU_MEMORY_ALIGNMENT) > pool_size
                \/ \A i \in Slots : memory_pool.allocations[i].in_use
          /\ (ret'.result # GIBGO_RESULT_SUCCESS =>
                UNCHANGED <<vram_allocation_offset, memory_pool>>)]_vars

MapFound(a) == MatchingSlots(memory_pool.allocations, a) # {}

MapEntry(a) == memory_pool.allocations[FirstMatchingSlot(memory_pool.allocations, a)]

\* C10 (as stated): map(address, size) returns INVALID_PARAMETER when the
\* address is not among the in-use allocations or size exceeds the
\* allocation's recorded size, and otherwise returns SUCCESS with the
\* allocation's CPU pointer.
C10_MapAsStated ==
    ret.op = "map" =>
        IF ~MapFound(ret.a0) \/ ret.a1 > MapEntry(ret.a0).size
        THEN ret.result = GIBGO_RESULT_ERROR_INVALID_PARAMETER
        ELSE /\ ret.result = GIBGO_RESULT_SUCCESS
             /\ ret.out = MapEntry(ret.a0).cpu_pointer

\* C10 (amended): map(address, size) returns INVALID_PARAMETER when size is
\* zero, when the address is not among the in-use allocations, or when size
\* exceeds the recorded size of the first in-use table entry with that
\* address; otherwise it returns SUCCESS with that entry's CPU pointer; and
\* map never changes the allocator state.
C10_MapAmended ==
    [][ret'.op = "map" =>
          /\ UNCHANGED <<vram_allocation_offset, memory_pool>>
          /\ IF \/ ret'.a1 = 0
                \/ ~MapFound(ret'.a0)
                \/ ret'.a1 > MapEntry(ret'.a0).size
             THEN ret'.result = GIBGO_RESULT_ERROR_INVALID_PARAMETER
             ELSE /\ ret'.result = GIBGO_RESULT_SUCCESS
                  /\ ret'.out = MapEntry(ret'.a0).cpu_pointer]_vars

\* a map of the second of two allocations has succeeded
C10_Witness ==
    /\ ret.op = "map"
    /\ ret.result = GIBGO_RESULT_SUCCESS
    /\ memory_pool.allocation_count >= 2
    /\ ret.out = memory_pool.allocations[1].cpu_pointer
    /\ ret.out # memory_pool.allocations[0].cpu_pointer

\* C11: the bytes written through map(A.address, A.size) are read back
\* unchanged through a later map(A.address, A.size), whatever calls on other
\* allocations were made in between.
C11_ReadBackUnchanged ==
    (/\ ret.op = "read"
     /\ ret.result = GIBGO_RESULT_SUCCESS
     /\ alloc_log[ret.a0].written # 0) =>
        ret.out = alloc_log[ret.a0].written

\* C12: free returns SUCCESS and leaves the bump pointer, the allocation
\* table and the allocation count unchanged, and no two successful allocate
\* calls return the same address.
C12_FreeOnlyLogsNoReuse ==
    [][/\ ret'.op = "free" =>
            /\ ret'.result = GIBGO_RESULT_SUCCESS
            /\ UNCHANGED <<vram_allocation_offset, memory_pool>>
       /\ \A i, j \in 1 .. Len(alloc_log') :
            i # j => alloc_log'[i].address # alloc_log'[j].address]_vars

\* C13: a successful allocate(size) with size > 0 records exactly the
\* smallest multiple of the alignment that is >= size; the recorded size is
\* never zero and never smaller than the request.
C13_RoundedUpExactly ==
    \A i \in LogIndex :
        /\ alloc_log[i].size = align_gpu_memory_nowrap(alloc_log[i].request,
                                                       GPU_MEMORY_ALIGNMENT)
        /\ alloc_log[i].size > 0
        /\ alloc_log[i].size >= alloc_log[i].request

(***************************************************************************)
(* Claims about the command ring (checked under SpecDrm, where the ring is *)
(* written and nothing reads it).                                          *)
(***************************************************************************)
\* C3: starting from an empty ring that nothing consumes, the full-ring
\* path is not entered while at most capacity - 1 records have been
\* submitted, no more than capacity - 1 records are written without
\* entering it, and it is entered when the capacity-th record is submitted
\* (that is, when capacity - 1 records have been written).
C3_FullAtCapacity ==
    /\ ring_log.first_full_at = -1 => ring_log.written <= RingCapacity - 1
    /\ ring_log.first_full_at # -1 => ring_log.first_full_at = RingCapacity - 1
    /\ (ring_log.first_full_at = -1 /\ proc.pc = "submit"
          /\ proc.i < current_command_count) =>
            (NextTail(cmd_ring) = cmd_ring.head_offset
                <=> ring_log.written = RingCapacity - 1)

\* the capacity-th record of an unconsumed ring is being submitted and the
\* driver is in the full-ring wait
C3_Witness ==
    /\ proc.pc = "poll"
    /\ ring_log.written = RingCapacity - 1
    /\ ring_log.first_full_at = RingCapacity - 1
    /\ ring_log.pending = RingSlots \ {RingCapacity - 1}

\* C4: a record is written only when the ring is not full, the full-ring
\* wait is left without a write only with GPU_TIMEOUT, and the slot a record
\* is written to does not hold a record that no consumer has read.
C4_NoUnconsumedOverwrite ==
    [][/\ cmd_ring'.tail_offset # cmd_ring.tail_offset =>
            /\ NextTail(cmd_ring) # cmd_ring.head_offset
            /\ cmd_ring.tail_offset \notin ring_log.pending
       /\ (proc.pc = "poll" /\ proc'.pc = "idle") =>
            /\ ret'.result = GIBGO_RESULT_ERROR_GPU_TIMEOUT
            /\ cmd_ring'.command_buffer = cmd_ring.command_buffer]_vars

(***************************************************************************)
(* Claims about the command list and the fence (checked under SpecDrm).    *)
(***************************************************************************)
AppendFails(n) ==
    current_commands.null \/ current_command_count + n > max_commands

\* C5: every present_frame call increments the fence counter by one, stores
\* the new value as the frame fence and appends a FENCE command carrying
\* that value to the current command list.
C5_PresentAppendsFence ==
    [][device'.fence_counter # device.fence_counter =>
          /\ device'.fence_counter = device.fence_counter + 1
          /\ context'.frame_fence = device'.fence_counter
          /\ ~current_commands'.null
          /\ current_command_count' > current_command_count
          /\ current_commands'.cmds[current_command_count'] =
                GPUCommand("FENCE", context'.frame_fence, 0, 0)]_vars

\* C8: the list never holds more than max_commands (256) commands, and a
\* recording call made when the list is at capacity leaves the list and its
\* count unchanged; set_viewport, which returns the result of its append,
\* returns COMMAND_FAILED.
C8_ListBounded ==
    [][/\ current_command_count' <= MaxListCommands
       /\ Len(current_commands'.cmds) = current_command_count'
       /\ (/\ ~current_commands.null
           /\ current_command_count = MaxListCommands
           /\ proc.pc = "idle"
           /\ ret'.op \in {"set_viewport", "draw", "present"}) =>
             /\ UNCHANGED listVars
             /\ ret'.op = "set_viewport" =>
                    ret'.result = GIBGO_RESULT_ERROR_COMMAND_FAILED]_vars

\* set_viewport was called on a list at capacity and failed
C8_Witness ==
    /\ ret.op = "set_viewport"
    /\ ret.result = GIBGO_RESULT_ERROR_COMMAND_FAILED
    /\ ~current_commands.null
    /\ current_command_count = MaxListCommands
    /\ Len(current_commands.cmds) = MaxListCommands

\* C9: when an append fails inside draw_primitives or present_frame (no
\* list, or not enough room for the commands of the call), the call does not
\* return SUCCESS.
C9_AppendFailureReturned ==
    [][(/\ ret' # ret
        /\ \/ ret'.op = "draw" /\ AppendFails(3)
           \/ ret'.op = "present" /\ AppendFails(2)) =>
          ret'.result # GIBGO_RESULT_SUCCESS]_vars

(***************************************************************************)
(* Claim about the fence register after a submit (checked under SpecGfx,   *)
(* where submit executes the ring).                                        *)
(***************************************************************************)
\* C6: after a successful submit of a list that contains a present, the
\* fence register is at least the frame fence.
C6_FenceReachedAfterSubmit ==
    (ret.op = "submit" /\ ret.result = GIBGO_RESULT_SUCCESS /\ ret.a0 = 1) =>
        registers["FENCE"] >= context.frame_fence

\* C20: during a submit that returns SUCCESS the engine reads from the ring
\* exactly the commands of the submitted list, in recorded order, each once
\* and unchanged, and the ring is empty (head == tail) when submit returns.
C20_RingReplaysList ==
    [][(proc.pc = "submit" /\ proc'.pc = "idle"
          /\ ret'.result = GIBGO_RESULT_SUCCESS) =>
            /\ ring_log'.executed = current_commands.cmds
            /\ cmd_ring'.head_offset = cmd_ring'.tail_offset
            /\ ring_log'.pending = {}]_vars

C14_ValidIffInsideFrustum ==
    raster.clip_space.set =>
        (raster.tv[Len(raster.tv)].is_valid <=>
            /\ raster.clip_space.w > 0
            /\ f32_abs(raster.clip_space.x) <= raster.clip_space.w
            /\ f32_abs(raster.clip_space.y) <= raster.clip_space.w)

\* the triangle step of the render loop is taken
TriangleStepTaken == raster.pc = "render" /\ Len(raster.tv) = 3 /\ raster'.tv = <<>>

\* the three vertices of the triangle at the triangle step are valid
AllValid == raster.tv[1].is_valid /\ raster.tv[2].is_valid /\ raster.tv[3].is_valid

\* the cross product (b - a) x (c - a) of screen positions is negative;
\* a.d, b.d, c.d > 0, so multiplying through by them keeps the sign
CrossNegative(a, b, c) ==
    LET dx(p, q) == p.x.n * q.x.d - q.x.n * p.x.d
        dy(p, q) == p.y.n * q.y.d - q.y.n * p.y.d
    IN  dx(b, a) * c.x.d * dy(c, a) * b.y.d < dy(b, a) * c.y.d * dx(c, a) * b.x.d

\* C15: with face culling enabled, a triangle whose screen-space cross
\* product of (v1 - v0) and (v2 - v0) is negative is not rasterized (the
\* framebuffer is left as it was); with culling disabled the same triangle
\* is rasterized.  The triangle is one with three valid vertices.
C15_BackFacesCulled ==
    [][(/\ TriangleStepTaken
        /\ AllValid
        /\ CrossNegative(raster.tv[1].position, raster.tv[2].position,
                         raster.tv[3].position))
       => IF raster.face_culling_enabled
          THEN /\ raster'.triangles_rendered = raster.triangles_rendered
               /\ framebuffer' = framebuffer
          ELSE /\ raster'.triangles_rendered = raster.triangles_rendered + 1
               /\ framebuffer' = rasterize_triangle(
                                     framebuffer, FramebufferWidth, FramebufferHeight,
                                     raster.tv[1], raster.tv[2], raster.tv[3])]_vars

\* a triangle with three valid vertices and a negative cross product, which
\* covers pixels, is waiting at the triangle step of a draw call with
\* culling enabled
C15_Witness ==
    /\ raster.pc = "render" /\ Len(raster.tv) = 3
    /\ raster.face_culling_enabled
    /\ AllValid
    /\ CrossNegative(raster.tv[1].position, raster.tv[2].position,
                     raster.tv[3].position)
    /\ rasterize_triangle(framebuffer, FramebufferWidth, FramebufferHeight,
                          raster.tv[1], raster.tv[2], raster.tv[3]) # framebuffer

\* the triangle at the triangle step is culled: culling is enabled and the
\* cross product of its screen positions is negative
Culled ==
    /\ raster.face_culling_enabled
    /\ CrossNegative(raster.tv[1].position, raster.tv[2].position,
                     raster.tv[3].position)

\* C17: within a draw call a triangle is rasterized exactly when all three
\* of its vertices are valid and it is not culled; a triangle that is
\* skipped leaves the framebuffer alone and the loop goes on to the next
\* triangle (i advances by 3 and the loop continues while a complete
\* triangle remains).
C17_RasterizedIffValidAndNotCulled ==
    [][TriangleStepTaken =>
          /\ (AllValid /\ ~Culled) =>
                 /\ raster'.triangles_rendered = raster.triangles_rendered + 1
                 /\ framebuffer' = rasterize_triangle(
                                       framebuffer, FramebufferWidth, FramebufferHeight,
                                       raster.tv[1], raster.tv[2], raster.tv[3])
          /\ ~(AllValid /\ ~Culled) =>
                 /\ raster'.triangles_rendered = raster.triangles_rendered
                 /\ framebuffer' = framebuffer
          /\ raster'.i = raster.i + 3
          /\ (raster.i + 5 < raster.vertex_count) => raster'.pc = "render"]_vars

\* the second triangle of a draw call without culling is about to be
\* rasterized after the first was skipped for an invalid vertex
C17_Witness ==
    /\ raster.pc = "render" /\ Len(raster.tv) = 3
    /\ raster.i = 3 /\ raster.triangles_clipped = 1
    /\ ~raster.face_culling_enabled
    /\ AllValid
    /\ rasterize_triangle(framebuffer, FramebufferWidth, FramebufferHeight,
                          raster.tv[1], raster.tv[2], raster.tv[3]) # framebuffer

\* pixel p lies inside the bounding box of the triangle at the triangle
\* step: min_x <= x <= max_x and min_y <= y <= max_y for its column x and
\* row y
InsideBoundingBox(p) ==
    LET x == f32_from_i32(p % FramebufferWidth)
        y == f32_from_i32(p \div FramebufferWidth)
        P(k) == raster.tv[k].position
    IN  /\ \E k \in 1 .. 3 : ~f32_gt(P(k).x, x)
        /\ \E k \in 1 .. 3 : ~f32_lt(P(k).x, x)
        /\ \E k \in 1 .. 3 : ~f32_gt(P(k).y, y)
        /\ \E k \in 1 .. 3 : ~f32_lt(P(k).y, y)

\* C19: rasterize_triangle writes only pixels that lie inside the
\* framebuffer [0, width - 1] x [0, height - 1] and inside the bounding box
\* of the triangle: no pixel strictly outside the bounding box changes, and
\* no index at or beyond width * height is written.
C19_WritesInsideBoxAndFramebuffer ==
    [][TriangleStepTaken =>
          /\ DOMAIN framebuffer' = Pixels
          /\ \A p \in Pixels :
                 framebuffer'[p] # framebuffer[p] => InsideBoundingBox(p)]_vars

\* a triangle that reaches the right edge of the screen (a vertex at
\* x = width, beyond the last column) has been rasterized and covers a
\* pixel of the last column
C19_Witness ==
    /\ raster.triangles_rendered = 1
    /\ \E p \in Pixels : framebuffer[p] = TriangleColor
    /\ \E p \in Pixels : p % FramebufferWidth = FramebufferWidth - 1
                           /\ framebuffer[p] = TriangleColor

(***************************************************************************)
(* The indexed drawing of gibgoGraphics.                                   *)
(***************************************************************************)
\* the fragment at pixel p of the k-th triangle drawn in the frame
DrawnFragment(k, p) ==
    LET t == TriangleVertices(raster.vertices, raster.drawn[k])
        S(v) == ScreenVertex(v, model_matrix, FramebufferWidth, FramebufferHeight)
    IN  Fragment(p % FramebufferWidth, p \div FramebufferWidth, S(t[1]), S(t[2]), S(t[3]))

\* C16: with depth testing, once two triangles of a frame have been drawn
\* and both cover a pixel at different depths, the colour of the pixel is
\* the colour of the nearer triangle (smaller z) there, whichever of the two
\* was drawn first, and the depth stored for the pixel is the smaller z.
C16_NearerTriangleWins ==
    (Len(raster.drawn) = 2 /\ raster.triangles_rendered > 0) =>
        \A p \in Pixels :
            LET a == DrawnFragment(1, p)
                b == DrawnFragment(2, p)
                near == IF f32_lt(a.z, b.z) THEN a ELSE b
            IN  (a.inside /\ b.inside /\ (f32_lt(a.z, b.z) \/ f32_lt(b.z, a.z))) =>
                    /\ framebuffer[p] = near.color
                    /\ depth_buffer # <<>> => depth_buffer[p] = near.z

\* C18: in an executed frame the clear of the framebuffer comes before every
\* triangle of the frame, so no pixel that a triangle of the frame wrote is
\* afterwards overwritten by a clear.
C18_NoClearAfterTriangle == raster.cleared_after_draw = {}

(***************************************************************************)
(* Claims about the life of the command list (checked under SpecGfx).      *)
(***************************************************************************)
\* a submit call returns in this step, with whatever result
SubmitReturns == proc.pc \in {"submit", "poll"} /\ proc'.pc = "idle"

\* a call that records, ends or submits is made in this step while no list
\* is active and at least one list has been begun and consumed
CallWithoutList ==
    /\ proc.pc = "idle"
    /\ proc'.pc = "idle"
    /\ current_commands.null
    /\ lists_begun > 0
    /\ ret' # ret
    /\ ret'.op \in {"set_viewport", "draw", "present", "end", "submit"}

\* C21: a list is created by begin and consumed by submit: when submit
\* returns, with any result, no list is active; a record, end or submit call
\* made before the next begin returns INVALID_PARAMETER and records nothing;
\* and every write to the ring stores the next command of the active list,
\* so no recorded command is submitted twice.
C21_ListConsumedBySubmit ==
    [][/\ SubmitReturns => current_commands'.null
       /\ CallWithoutList =>
            /\ ret'.result = GIBGO_RESULT_ERROR_INVALID_PARAMETER
            /\ UNCHANGED listVars
       /\ ring_log'.written # ring_log.written =>
            /\ ~current_commands.null
            /\ proc.i < current_command_count
            /\ proc'.i = proc.i + 1
            /\ cmd_ring'.command_buffer[cmd_ring.tail_offset] =
                  current_commands.cmds[proc.i + 1]]_vars

(***************************************************************************)
(* Claim about the statistics counters (checked under SpecGfx).            *)
(***************************************************************************)
\* a present_frame call is made in this step: only it advances the frame
\* index of the context
PresentCalled == context'.current_frame_index # context.current_frame_index

\* a submit call returns SUCCESS in this step
SubmitSucceeds ==
    /\ proc.pc = "submit"
    /\ proc'.pc = "idle"
    /\ ret'.result = GIBGO_RESULT_SUCCESS

\* C22: frames_rendered counts the present_frame calls and
\* commands_submitted the commands of the lists whose submit returned
\* SUCCESS: a present call adds one to frames_rendered and no other step
\* changes it; a successful submit adds the length of its list to
\* commands_submitted and no other step changes it.
C22_CountersMatchCalls ==
    [][/\ device'.frames_rendered =
            device.frames_rendered + (IF PresentCalled THEN 1 ELSE 0)
       /\ device'.commands_submitted =
            device.commands_submitted
                + (IF SubmitSucceeds THEN Len(current_commands.cmds) ELSE 0)]_vars

(***************************************************************************)
(* Claim about the triangles of a draw call (checked under SpecRaster).    *)
(***************************************************************************)
\* the vertex indices the claim lets a draw read
DrawRange == raster.first_vertex .. (raster.first_vertex + raster.vertex_count - 1)

\* C24: a draw of vertex_count vertices starting at first_vertex processes
\* exactly vertex_count \div 3 triangles; each is the next consecutive
\* triple counted from first_vertex, and its three vertex indices lie in
\* [first_vertex, first_vertex + vertex_count).
C24_TrianglesOfDraw ==
    /\ (raster.pc = "idle" /\ raster.vertex_count > 0) =>
          raster.triangles_rendered + raster.triangles_clipped
              = raster.vertex_count \div 3
    /\ raster.pc = "render" =>
          /\ raster.i = raster.first_vertex
                + 3 * (raster.triangles_rendered + raster.triangles_clipped)
          /\ {raster.i, raster.i + 1, raster.i + 2} \subseteq DrawRange

(***************************************************************************)
(* Claim about the replay of a recorded list (checked under SpecReplay).   *)
(***************************************************************************)
\* the positions of the DRAW_PRIMITIVES commands of a list
DrawPositions(commands) ==
    {k \in 1 .. Len(commands) : commands[k].command_type = "DRAW_PRIMITIVES"}

\* the position of the n-th DRAW_PRIMITIVES command
NthDraw(commands, n) ==
    CHOOSE k \in DrawPositions(commands) :
        Cardinality({j \in DrawPositions(commands) : j <= k}) = n

\* the last command of a type recorded before position k, if there is one
SetBefore(commands, k, type) ==
    {j \in 1 .. (k - 1) :
        /\ commands[j].command_type = type
        /\ \A i \in (j + 1) .. (k - 1) : commands[i].command_type # type}

\* the draw call the DRAW_PRIMITIVES command at position k stands for: its
\* own vertex range, and the buffers and the culling state set before it
\* (no buffer and culling enabled if none was set)
DrawCallOf(commands, k) ==
    LET vb == SetBefore(commands, k, "SET_VERTEX_BUFFER")
        ub == SetBefore(commands, k, "SET_UNIFORM_BUFFER")
        fc == SetBefore(commands, k, "ENABLE_FACE_CULLING")
    IN  [vertex_buffer_address |->
            IF vb = {} THEN 0
            ELSE LET c == commands[CHOOSE j \in vb : TRUE]
                 IN  c.param1 * U32 + c.param0,
         uniform_buffer_address |->
            IF ub = {} THEN 0
            ELSE LET c == commands[CHOOSE j \in ub : TRUE]
                 IN  c.param1 * U32 + c.param0,
         vertex_count |-> commands[k].param0,
         first_vertex |-> commands[k].param1,
         face_culling_enabled |->
            IF fc = {} THEN TRUE
            ELSE commands[CHOOSE j \in fc : TRUE].param0 = 1]

\* C23: every DRAW_PRIMITIVES command of the list given to
\* execute_3d_cube_rendering is executed as its own draw call, with the
\* vertex buffer, the uniform buffer and the culling state set by the
\* commands recorded before it.
C23_EveryDrawExecuted ==
    LET commands == raster.commands
        n == Cardinality(DrawPositions(commands))
    IN  /\ Len(raster.draw_calls) = n
        /\ \A d \in 1 .. n :
              raster.draw_calls[d] = DrawCallOf(commands, NthDraw(commands, d))

(***************************************************************************)
(* Claim about the ring's backing buffer (checked under SpecGfx, where     *)
(* submit writes the ring and the execution engine reads it).              *)
(***************************************************************************)
\* the slots whose words are written (by submit) or read (by the engine) in
\* this step: the slot at the tail when a record is written, and the slots
\* that stop holding an unread record
SlotsAccessed ==
    (IF ring_log'.written # ring_log.written THEN {cmd_ring.tail_offset} ELSE {})
        \cup (ring_log.pending \ ring_log'.pending)

\* C25: every access to the ring's buffer by submit and by the execution
\* engine, the words slot * 4 .. slot * 4 + 3 of the slot written or read,
\* lies within the buffer allocated for the ring at device creation.
C25_RingAccessInBuffer ==
    [][\A slot \in SlotsAccessed : InBuffer(slot)]_vars

(***************************************************************************)
(* Claim about the ring offsets (checked under SpecDrm, where the ring     *)
(* fills up and the full-ring path re-reads the head register).            *)
(***************************************************************************)
\* C26: after any sequence of submits, including submits that take the
\* full-ring polling path and re-read the head pointer from the head
\* register, the ring's head and tail offsets are both in [0, capacity).
C26_OffsetsInRange ==
    /\ cmd_ring.head_offset \in RingSlots
    /\ cmd_ring.tail_offset \in RingSlots

(***************************************************************************)
(* Claim about the registers and the framebuffer (checked under SpecDrm,   *)
(* whose register block is the framebuffer).                               *)
(***************************************************************************)
\* execute_3d_cube_rendering runs in this step: gibgo_submit_commands was
\* called with a list; it is the only code that writes the framebuffer
SoftwareExecution == proc.pc = "idle" /\ proc'.pc = "submit"

\* the framebuffer pixel stored at the word of register r: the register
\* block of the device is the framebuffer, so it is the register's word
FramebufferWord(r) == registers[r]

\* C27: the framebuffer writes of command execution (clear, rasterization)
\* never change the fence register or the START, HEAD and TAIL registers of
\* the command processor, and the writes to those registers (by any other
\* step) never change a framebuffer pixel.
C27_RegistersApartFromFramebuffer ==
    [][/\ SoftwareExecution => registers' = registers
       /\ ~SoftwareExecution =>
            \A r \in RegisterNames : FramebufferWord(r)' = FramebufferWord(r)]_vars

(***************************************************************************)
(* Claim about the allocator's bookkeeping (checked under SpecAlloc).      *)
(***************************************************************************)
InUseSlots == {i \in Slots : memory_pool.allocations[i].in_use}

RECURSIVE SumOfSizes(_)
SumOfSizes(slots) ==
    IF slots = {}
    THEN 0
    ELSE LET i == CHOOSE s \in slots : TRUE
         IN  memory_pool.allocations[i].size + SumOfSizes(slots \ {i})

CpuRegionsDisjoint ==
    \A i, j \in InUseSlots :
        i # j =>
            \/ memory_pool.allocations[i].cpu_pointer + memory_pool.allocations[i].size
                 <= memory_pool.allocations[j].cpu_pointer
            \/ memory_pool.allocations[j].cpu_pointer + memory_pool.allocations[j].size
                 <= memory_pool.allocations[i].cpu_pointer

CpuRegionsInPool ==
    \A i \in InUseSlots :
        /\ memory_pool.allocations[i].cpu_pointer >= pool_memory
        /\ memory_pool.allocations[i].cpu_pointer + memory_pool.allocations[i].size
             <= pool_memory + pool_size

CountersAgree ==
    /\ memory_pool.allocation_count = Cardinality(InUseSlots)
    /\ memory_pool.pool_used = vram_allocation_offset

\* C28: after any sequence of allocate and free calls the allocation count
\* equals the number of in-use table slots, the used-bytes counter equals
\* the bump offset and the sum of the recorded allocation sizes, and the CPU
\* regions of distinct allocations are pairwise disjoint and lie inside the
\* backing pool.
C28_AllocatorBookkeeping ==
    /\ CountersAgree
    /\ memory_pool.pool_used = SumOfSizes(InUseSlots)
    /\ CpuRegionsDisjoint
    /\ CpuRegionsInPool

(***************************************************************************)
(* Claim about recording calls that cannot append (checked under           *)
(* SpecUniform).                                                           *)
(***************************************************************************)
\* a call of the named recording function returns without having appended:
\* there was no list, or the list was full
RecordingCallFails(op) ==
    /\ proc.pc = "idle"
    /\ proc'.pc = "idle"
    /\ ret'.op = op
    /\ AppendFails(1)

ViewportKept ==
    /\ context'.framebuffer_width = context.framebuffer_width
    /\ context'.framebuffer_height = context.framebuffer_height

UniformBufferKept ==
    /\ context'.uniform_buffer_address = context.uniform_buffer_address
    /\ context'.uniform_buffer_size = context.uniform_buffer_size

FrameCountersKept ==
    /\ device'.fence_counter = device.fence_counter
    /\ context'.current_frame_index = context.current_frame_index
    /\ device'.frames_rendered = device.frames_rendered

\* C29: a recording call whose command could not be appended (no active
\* list, or list full) leaves the context and the device unchanged:
\* set_viewport does not change the framebuffer size, set_uniform_buffer
\* does not change the bound buffer, and present_frame does not advance the
\* fence counter, the frame index or frames_rendered.
C29_FailedRecordingChangesNothing ==
    [][/\ RecordingCallFails("set_viewport") => ViewportKept
       /\ RecordingCallFails("set_uniform_buffer") => UniformBufferKept
       /\ RecordingCallFails("present") => FrameCountersKept
       /\ (\E op \in {"set_viewport", "set_uniform_buffer", "present"} :
              RecordingCallFails(op)) => (context' = context /\ device' = device)]_vars

(***************************************************************************)
(* Claim about the memory used by the frame loop (checked under SpecFrame).*)
(***************************************************************************)
\* a gibgo_set_uniform_buffer_data call returns
UniformDataCalled ==
    /\ proc.pc = "idle"
    /\ proc'.pc = "idle"
    /\ ret'.op = "set_uniform_buffer_data"

\* an earlier frame went through: its uniform buffer was allocated, it was
\* presented and its list was submitted
FirstFrameSucceeded ==
    /\ Len(alloc_log) >= 2
    /\ context.current_frame_index >= 1
    /\ device.commands_submitted > 0

\* C30: rendering frames in a loop (begin, set_uniform_buffer_data, draw,
\* present, submit, wait) does not increase the number of in-use allocation
\* slots or the bump pointer from one frame to the next, so a frame sequence
\* whose first frame succeeds never later fails with OUT_OF_MEMORY.
C30_FramesUseNoMoreMemory ==
    [][(UniformDataCalled /\ FirstFrameSucceeded) =>
          /\ Cardinality(InUseSlots') = Cardinality(InUseSlots)
          /\ vram_allocation_offset' = vram_allocation_offset
          /\ ret'.result # GIBGO_ERROR_OUT_OF_MEMORY]_vars

====
